---- MODULE Spec2Model ----
(***************************************************************************)
(* Model of the thesis checker: the structural extractor                    *)
(* (src/docx_extractor.py) and the rule registry with its rules             *)
(* (src/registry.py, src/*_rules.py).                                       *)
(*                                                                          *)
(* Text is modelled as a sequence of atoms.  An atom is a string standing   *)
(* for the characters it spells: a digit ("1"), a punctuation character     *)
(* ("."), a blank (" ", or "nbsp" for U+00A0) or a whole word               *)
(* ("einleitung", "Einleitung"): a maximal run of letters.  The text is     *)
(* the concatenation of its atoms; blanks are explicit atoms.               *)
(***************************************************************************)
EXTENDS Integers, Sequences, FiniteSets, TLC

VARIABLES
    body,        \* the XML body tree handed to _walk_body_paragraphs
    stack,       \* the walker's generator frames (walk() activations)
    yielded,     \* the (paragraph, in_table) pairs yielded so far
    elems,       \* the walked (paragraph, in_table) pairs the extractor loops over
    idx,         \* the extractor's loop index: paragraphs consumed so far
    paragraphs,  \* List[str] paragraphs
    headings,    \* List[Heading] headings
    auto_counts, \* the outline counters auto_counts[0..9]
    pc,          \* where the pipeline stands
    extracted,   \* history: what _extract_paragraphs_and_headings_from_xml returned
    sections,    \* Dict[str, Section] of the last _build_sections call
    returned,    \* history: the maps the calls of _build_sections returned
    model,       \* the DocumentModel extract_docx returns
    annotation,  \* the Optional[AIAnnotations] of the evaluation pass
    rule_idx,    \* the rules of the registry the sequential pass has taken up
    queue,       \* the rules a pool has not taken up yet, in its order
    running,     \* the rules a worker has taken up and not finished
    faulted,     \* the rules whose run() raised
    results,     \* per rule of the registry: the list run() returned, once it has
    all_findings, \* the findings of the pass, concatenated
    calls        \* the activations of the extractor that run side by side

walkVars == <<body, stack, yielded>>

extVars == <<elems, idx, paragraphs, headings, auto_counts, extracted>>

segVars == <<sections, returned>>

engVars == <<model, annotation, rule_idx, queue, running, faulted, results, all_findings>>

vars == <<walkVars, extVars, segVars, engVars, calls, pc>>

\* the state of the rule engine before a pass
EngineIdle ==
    /\ model = <<>>
    /\ annotation = <<>>
    /\ rule_idx = 0
    /\ queue = <<>>
    /\ running = {}
    /\ faulted = {}
    /\ results = <<>>
    /\ all_findings = <<>>

(***************************************************************************)
(* Bounds of the model.                                                     *)
(***************************************************************************)
MaxNodes == 4

MaxParas == 3

MaxCalls == 2

MaxOutline == 4

MaxIlvl == 2

MaxToc == 3

MaxText == 3

(***************************************************************************)
(* Text: atoms and the string primitives the code uses.                     *)
(***************************************************************************)
Digits == {"0", "1", "2", "3", "4", "5", "6", "7", "8", "9"}

\* what \s and str.strip() treat as white space: the blank, U+00A0, the line break
Blanks == {" ", "nbsp", "\n"}

Puncts == {".", ",", ":", ";", "-", "(", ")", "[", "]", "?", "!"}

\* the words of the model that are written with a capital first letter, and
\* what str.lower() makes of them
CapWords ==
    ("Inhaltsverzeichnis" :> "inhaltsverzeichnis") @@ ("Einleitung" :> "einleitung") @@
    ("Theorie" :> "theorie") @@ ("Methode" :> "methode") @@
    ("Ergebnisse" :> "ergebnisse") @@ ("Diskussion" :> "diskussion") @@
    ("Fazit" :> "fazit") @@ ("Literaturverzeichnis" :> "literaturverzeichnis") @@
    ("Quellen" :> "quellen") @@ ("Hintergrund" :> "hintergrund") @@
    ("Grundlagen" :> "grundlagen") @@ ("Literaturrecherche" :> "literaturrecherche") @@
    ("Text" :> "text") @@ ("Mehr" :> "mehr") @@ ("Kapitel" :> "kapitel") @@
    ("Heading" :> "heading") @@ ("Standard" :> "standard") @@
    ("Forschungsfrage" :> "forschungsfrage") @@ ("Die" :> "die") @@
    ("Daten" :> "daten") @@ ("Analyse" :> "analyse") @@
    ("Abbildung" :> "abbildung") @@ ("Tabelle" :> "tabelle") @@
    ("Abbildungsverzeichnis" :> "abbildungsverzeichnis") @@
    ("Tabellenverzeichnis" :> "tabellenverzeichnis") @@
    ("Vorwort" :> "vorwort") @@ ("Anhang" :> "anhang") @@
    ("Meier" :> "meier") @@ ("Stand" :> "stand") @@ ("Forschung" :> "forschung") @@
    ("Theoretische" :> "theoretische") @@ ("Motivation" :> "motivation") @@ ("TOCHeading" :> "tocheading") @@
    ("Überschrift" :> "überschrift") @@ ("Ziel" :> "ziel") @@ ("Arbeit" :> "arbeit") @@
    ("Studies" :> "studies") @@ ("Müller" :> "müller") @@ ("Et" :> "et") @@ ("Al" :> "al")

IsWord(a) == a \notin Digits \cup Blanks \cup Puncts

\* [a-zäöüß]: a word that starts with a lower-case letter
IsLowerWord(a) == IsWord(a) /\ a \notin DOMAIN CapWords

\* \w: a letter or a digit
IsWordChar(a) == IsWord(a) \/ a \in Digits

\* the number of characters an atom spells
AtomLen(a) == IF a = "nbsp" THEN 1 ELSE Len(a)

RECURSIVE TextLen(_)
TextLen(s) ==
    IF s = <<>> THEN 0
    ELSE IF Len(s) = 1 THEN AtomLen(s[1])
    ELSE TextLen(SubSeq(s, 1, Len(s) \div 2))
         + TextLen(SubSeq(s, Len(s) \div 2 + 1, Len(s)))

\* str.lower()
Lower(s) == [i \in 1..Len(s) |-> IF s[i] \in DOMAIN CapWords THEN CapWords[s[i]] ELSE s[i]]

\* unicodedata.normalize("NFKC", s): U+00A0 has the compatibility mapping U+0020;
\* every other atom of the model is in composed form already
Nfkc(s) == [i \in 1..Len(s) |-> IF s[i] = "nbsp" THEN " " ELSE s[i]]

\* s.replace(" ", " ")
ReplaceNbsp(s) == [i \in 1..Len(s) |-> IF s[i] = "nbsp" THEN " " ELSE s[i]]

RECURSIVE LStrip(_)
LStrip(s) == IF s # <<>> /\ Head(s) \in Blanks THEN LStrip(Tail(s)) ELSE s

RECURSIVE RStrip(_)
RStrip(s) ==
    IF s # <<>> /\ s[Len(s)] \in Blanks THEN RStrip(SubSeq(s, 1, Len(s) - 1)) ELSE s

\* str.strip()
Strip(s) == RStrip(LStrip(s))

\* re.sub(r"\s+", " ", s): of every run of blanks the first one stays, as a space
CollapseBlanks(s) ==
    LET kept == SelectSeq([i \in 1..Len(s) |-> i],
                          LAMBDA i : s[i] \notin Blanks \/ i = 1 \/ s[i - 1] \notin Blanks)
    IN  [k \in 1..Len(kept) |-> IF s[kept[k]] \in Blanks THEN " " ELSE s[kept[k]]]

\* first index at or after i that holds no blank (Len(s) + 1 when there is none)
SkipBlanks(s, i) ==
    LET rest == {k \in i..Len(s) : s[k] \notin Blanks}
    IN  IF rest # {} THEN CHOOSE k \in rest : \A j \in rest : k <= j
        ELSE IF i > Len(s) THEN i
        ELSE Len(s) + 1

\* last index of the run of digits that starts at i (i - 1 when s[i] is no digit)
RECURSIVE DigitsEnd(_, _)
DigitsEnd(s, i) ==
    IF i <= Len(s) /\ s[i] \in Digits THEN DigitsEnd(s, i + 1) ELSE i - 1

RECURSIVE MoreNumber(_, _)
MoreNumber(s, e) ==
    IF e + 2 <= Len(s) /\ s[e + 1] = "." /\ s[e + 2] \in Digits
    THEN MoreNumber(s, DigitsEnd(s, e + 2))
    ELSE e

\* last index of the longest match of \d+(\.\d+)* that starts at i (i - 1: no match)
NumberEnd(s, i) ==
    IF DigitsEnd(s, i) < i THEN i - 1 ELSE MoreNumber(s, DigitsEnd(s, i))

\* the length of the run of digits that ends the text
RECURSIVE TrailingDigits(_)
TrailingDigits(s) ==
    IF s # <<>> /\ s[Len(s)] \in Digits
    THEN 1 + TrailingDigits(SubSeq(s, 1, Len(s) - 1))
    ELSE 0

\* \s+\d{1,4}$ : the text ends in a blank followed by one to four digits; the
\* index of that blank, or 0
PageNumberAt(s) ==
    LET r == TrailingDigits(s)
    IN  IF r \in 1..4 /\ Len(s) - r >= 1 /\ s[Len(s) - r] \in Blanks
        THEN Len(s) - r ELSE 0

\* \bword\b at index i: the atom is the word and no letter or digit touches it
WordAt(s, i, w) ==
    /\ i \in 1..Len(s)
    /\ s[i] = w
    /\ (i = 1 \/ ~IsWordChar(s[i - 1]))
    /\ (i = Len(s) \/ ~IsWordChar(s[i + 1]))

\* re.search(r"\bword\b", s)
ContainsWord(s, w) == \E i \in 1..Len(s) : WordAt(s, i, w)

\* re.search of a phrase of words separated by single blanks, between \b and \b
ContainsPhrase(s, ph) ==
    \E i \in 1..Len(s) :
        /\ i + Len(ph) - 1 <= Len(s)
        /\ SubSeq(s, i, i + Len(ph) - 1) = ph
        /\ (i = 1 \/ ~IsWordChar(s[i - 1]))
        /\ (i + Len(ph) - 1 = Len(s) \/ ~IsWordChar(s[i + Len(ph)]))

\* str.startswith
StartsWith(s, pre) == Len(pre) <= Len(s) /\ SubSeq(s, 1, Len(pre)) = pre

\* "\n".join(parts): the line break is the atom "\n"
RECURSIVE JoinLines(_)
JoinLines(parts) ==
    IF parts = <<>> THEN <<>>
    ELSE IF Len(parts) = 1 THEN parts[1]
    ELSE parts[1] \o <<"\n">> \o JoinLines(Tail(parts))

\* _word_count: len(re.findall(r"\w+", text)): the maximal runs of letters and digits
WordCount(s) ==
    Cardinality({i \in 1..Len(s) : IsWordChar(s[i]) /\ (i = 1 \/ ~IsWordChar(s[i - 1]))})

\* str(n) for n >= 0
RECURSIVE Str(_)
Str(n) ==
    LET d == <<"0", "1", "2", "3", "4", "5", "6", "7", "8", "9">>
    IN  IF n < 10 THEN <<d[n + 1]>> ELSE Str(n \div 10) \o <<d[(n % 10) + 1]>>

\* int(s) for a text of digits
RECURSIVE IntOf(_)
IntOf(s) ==
    LET v(a) == CHOOSE n \in 0..9 : Str(n) = <<a>>
    IN  IF s = <<>> THEN 0 ELSE 10 * IntOf(SubSeq(s, 1, Len(s) - 1)) + v(s[Len(s)])

\* str.count(".")
RECURSIVE CountDots(_)
CountDots(s) ==
    IF s = <<>> THEN 0 ELSE (IF Head(s) = "." THEN 1 ELSE 0) + CountDots(Tail(s))

\* str.isdigit(): not empty, digits only
IsDigitText(s) == s # <<>> /\ \A i \in 1..Len(s) : s[i] \in Digits

(***************************************************************************)
(* docx_extractor: the pure helpers.  None (Optional[...]) is the empty     *)
(* sequence; an int that may be None is a sequence of at most one element.  *)
(***************************************************************************)
\* _normalize_simple
NormalizeSimple(s) == Lower(Strip(CollapseBlanks(ReplaceNbsp(Nfkc(s)))))

\* re.sub(r"^\s*\d+(?:\.\d+)*\s*[\.\)]?\s*", "", t)
StripLeadingNumber(t) ==
    LET i0 == SkipBlanks(t, 1)
        e == NumberEnd(t, i0)
        j == SkipBlanks(t, e + 1)
        j2 == IF j <= Len(t) /\ t[j] \in {".", ")"} THEN j + 1 ELSE j
        j3 == SkipBlanks(t, j2)
    IN  IF e < i0 THEN t ELSE SubSeq(t, j3, Len(t))

\* re.sub(r"[\s:;.\-–—]+$", "", t)
StripTrailingPunct(t) ==
    LET kept == {k \in 1..Len(t) : t[k] \notin Blanks \cup {":", ";", ".", "-"}}
    IN  IF kept = {} THEN <<>>
        ELSE SubSeq(t, 1, CHOOSE k \in kept : \A j \in kept : j <= k)

\* _normalize_title
NormalizeTitle(title) ==
    LET t1 == Lower(Strip(ReplaceNbsp(Nfkc(title))))
        t2 == StripLeadingNumber(t1)
        t3 == Strip(StripTrailingPunct(t2))
    IN  Strip(CollapseBlanks(t3))

\* re.search(r"\.{3,}", t) (which "...." in t implies)
HasDotLeader(t) ==
    \E i \in 1..(Len(t) - 2) : t[i] = "." /\ t[i + 1] = "." /\ t[i + 2] = "."

\* re.match(r"^\d+(\.\d+)*[a-zäöüß].*\d{1,4}$", t)
TocGlued(t) ==
    LET e == NumberEnd(t, 1)
    IN  /\ e >= 1
        /\ e + 1 <= Len(t)
        /\ IsLowerWord(t[e + 1])
        /\ TrailingDigits(t) >= 1

\* re.match(r"^\d+(\.\d+)*\s+.+\s+\d{1,4}$", t)
TocNumbered(t) ==
    LET e == NumberEnd(t, 1)
        b == SkipBlanks(t, e + 1)
    IN  /\ e >= 1
        /\ b > e + 1
        /\ PageNumberAt(t) > b

\* re.match(r"^[a-zäöüß].+\s+\d{1,4}$", t)
TocUnnumbered(t) ==
    /\ t # <<>>
    /\ IsLowerWord(t[1])
    /\ PageNumberAt(t) >= (IF AtomLen(t[1]) >= 2 THEN 2 ELSE 3)

\* _looks_like_toc_line
LooksLikeTocLine(p) ==
    LET t == NormalizeSimple(p)
    IN  /\ t # <<>>
        /\ \/ HasDotLeader(t)
           \/ TocGlued(t)
           \/ TocNumbered(t)
           \/ TocUnnumbered(t)

None == <<>>

Some(x) == <<x>>

SECTION_KEYWORDS ==
    ("abstract" :> << <<"abstract">>, <<"kurzfassung">>, <<"executive", " ", "summary">> >>) @@
    ("abkuerzungen" :> << <<"abkürzungsverzeichnis">>, <<"abkuerzungsverzeichnis">>,
                          <<"abkürzungen">>, <<"abkuerzungen">>,
                          <<"list", " ", "of", " ", "abbreviations">>, <<"abbreviations">> >>) @@
    ("einleitung" :> << <<"einleitung">>, <<"introduction">> >>) @@
    ("theorie" :> << <<"theorie">>, <<"grundlagen">>, <<"theoretische", " ", "grundlagen">>,
                     <<"theoretischer", " ", "hintergrund">>,
                     <<"stand", " ", "der", " ", "forschung">>, <<"forschungsstand">>,
                     <<"background">>, <<"theoretical", " ", "background">> >>) @@
    ("methode" :> << <<"methode">>, <<"methodik">>, <<"methods">>, <<"methodology">> >>) @@
    ("ergebnisse" :> << <<"ergebnisse">>, <<"results">> >>) @@
    ("diskussion" :> << <<"diskussion">>, <<"discussion">> >>) @@
    ("fazit" :> << <<"fazit">>, <<"schluss">>, <<"schlussfolgerung">>,
                   <<"schlussfolgerungen">>, <<"zusammenfassung">>, <<"conclusion">>,
                   <<"conclusions">>, <<"summary">>, <<"ausblick">> >>) @@
    ("literatur" :> << <<"literaturverzeichnis">>, <<"references">>, <<"bibliography">>,
                       <<"quellenverzeichnis">>, <<"quellen">> >>)

STRICT_ONLY_KEYS == {"literatur", "ergebnisse", "diskussion", "abstract", "abkuerzungen"}

PREFIX_OK_KEYS == {"einleitung", "theorie", "methode", "fazit"}

\* t == _normalize_title(kw) for some keyword kw of the key
ExactKeyword(t, key) ==
    \E i \in 1..Len(SECTION_KEYWORDS[key]) : t = NormalizeTitle(SECTION_KEYWORDS[key][i])

\* kw_n and t.startswith(kw_n + " ") for some keyword kw of the key
PrefixKeyword(t, key) ==
    \E i \in 1..Len(SECTION_KEYWORDS[key]) :
        LET kw_n == NormalizeTitle(SECTION_KEYWORDS[key][i])
        IN  kw_n # <<>> /\ StartsWith(t, kw_n \o <<" ">>)

\* re.search(r"\b(theorie|grundlagen|theoretisch|forschungsstand|stand der forschung|background)\b", t)
TheoryLike(t) ==
    \/ \E w \in {"theorie", "grundlagen", "theoretisch", "forschungsstand", "background"} :
          ContainsWord(t, w)
    \/ ContainsPhrase(t, <<"stand", " ", "der", " ", "forschung">>)

\* is_top_level
IsTopLevel(level, number) ==
    \/ (level # None /\ level[1] = 1)
    \/ (number # None /\ IsDigitText(number))

\* _find_section_key(title, level=level, number=number).  The keyword lists of
\* different keys share no keyword and no first word, so at most one key
\* matches in each loop and the iteration order of the key sets does not matter.
\* a mutant of FindSectionKey that takes a prefix match at any level
FindSectionKeyAnyLevel(title, level, number) ==
    LET t == NormalizeTitle(title)
        strict == {k \in STRICT_ONLY_KEYS : ExactKeyword(t, k)}
        rest == {k \in (DOMAIN SECTION_KEYWORDS) \ STRICT_ONLY_KEYS : ExactKeyword(t, k)}
        prefix == {k \in PREFIX_OK_KEYS : PrefixKeyword(t, k)}
    IN  IF t = <<>> THEN None
        ELSE IF ContainsWord(t, "literaturrecherche") THEN None
        ELSE IF strict # {} THEN Some(CHOOSE k \in strict : TRUE)
        ELSE IF rest # {} THEN Some(CHOOSE k \in rest : TRUE)
        ELSE IF prefix # {} THEN Some(CHOOSE k \in prefix : TRUE)
        ELSE IF IsTopLevel(level, number) /\ TheoryLike(t) THEN Some("theorie")
        ELSE None
FindSectionKey(title, level, number) ==
    LET t == NormalizeTitle(title)
        strict == {k \in STRICT_ONLY_KEYS : ExactKeyword(t, k)}
        rest == {k \in (DOMAIN SECTION_KEYWORDS) \ STRICT_ONLY_KEYS : ExactKeyword(t, k)}
        prefix == {k \in PREFIX_OK_KEYS : PrefixKeyword(t, k)}
    IN  IF t = <<>> THEN None
        ELSE IF ContainsWord(t, "literaturrecherche") THEN None
        ELSE IF strict # {} THEN Some(CHOOSE k \in strict : TRUE)
        ELSE IF rest # {} THEN Some(CHOOSE k \in rest : TRUE)
        ELSE IF IsTopLevel(level, number) /\ prefix # {} THEN Some(CHOOSE k \in prefix : TRUE)
        ELSE IF IsTopLevel(level, number) /\ TheoryLike(t) THEN Some("theorie")
        ELSE None

\* _p_text: the text runs of the paragraph, NFKC, U+00A0 replaced, stripped
PText(p) == Strip(ReplaceNbsp(Nfkc(p.text)))

\* _p_style: the style id, stripped and lower-cased ("" when there is none)
PStyle(p) == Lower(Strip(p.style))

\* _p_ilvl: the int of w:ilvl/@w:val, None when absent or not an int
PIlvl(p) == p.ilvl

\* the words of a style id that contain heading, überschrift or berschrift;
\* each of them ends with it
HeadingStyleWords == {"heading", "überschrift", "berschrift", "tocheading"}

\* re.search(r"(heading|überschrift|berschrift)\s*([1-9])", s) matches at atom i
StyleLevelAt(s, i) ==
    /\ s[i] \in HeadingStyleWords
    /\ SkipBlanks(s, i + 1) <= Len(s)
    /\ s[SkipBlanks(s, i + 1)] \in Digits \ {"0"}

\* _heading_level_from_style
HeadingLevelFromStyle(style_id) ==
    LET s == Lower(Strip(style_id))
        hits == {i \in 1..Len(s) : StyleLevelAt(s, i)}
        first == CHOOSE i \in hits : \A k \in hits : i <= k
    IN  IF s = <<>> THEN None
        ELSE IF hits # {} THEN Some(IntOf(<<s[SkipBlanks(s, first + 1)]>>))
        ELSE IF \E i \in 1..Len(s) : s[i] \in HeadingStyleWords THEN Some(1)
        ELSE None

\* NUMBERING_RE.match(text): ^\s*(\d+(?:\.\d+)*)(?:\.)?\s+(.+)$
\* number is group(1), title is group(2).strip(); number = None when no match
NumberingMatch(text) ==
    LET i0 == SkipBlanks(text, 1)
        e == NumberEnd(text, i0)
        d == IF e + 1 <= Len(text) /\ text[e + 1] = "." THEN e + 1 ELSE e
        b == SkipBlanks(text, d + 1)
        n == Len(text)
    IN  IF e >= i0 /\ b > d + 1 /\ b <= n
        THEN [number |-> SubSeq(text, i0, e), title |-> Strip(SubSeq(text, b, n))]
        ELSE IF e >= i0 /\ b > d + 2 /\ b > n
        THEN [number |-> SubSeq(text, i0, e), title |-> Strip(<<text[n]>>)]
        ELSE [number |-> None, title |-> text]

\* lvl = max(1, min(9, ilvl + 1))
OutlineLevel(ilvl) ==
    IF ilvl + 1 < 1 THEN 1 ELSE IF ilvl + 1 > 9 THEN 9 ELSE ilvl + 1

\* a mutant of AutoCountsAfter that leaves the deeper counters as they are
AutoCountsAfterNoReset(counts, lvl) ==
    [k \in 0..9 |->
        IF k = lvl THEN counts[k] + 1
        ELSE IF k = 1 /\ lvl > 1 /\ counts[1] = 0 THEN 1
        ELSE counts[k]]

\* auto_counts[lvl] += 1; deeper counters = 0; auto_counts[1] = 1 if it is 0 and lvl > 1
AutoCountsAfter(counts, lvl) ==
    [k \in 0..9 |->
        IF k = lvl THEN counts[k] + 1
        ELSE IF k > lvl THEN 0
        ELSE IF k = 1 /\ lvl > 1 /\ counts[1] = 0 THEN 1
        ELSE counts[k]]

\* ".".join(str(auto_counts[k]) for k in range(1, lvl + 1))
RECURSIVE JoinCounts(_, _, _)
JoinCounts(counts, k, lvl) ==
    IF k > lvl THEN <<>>
    ELSE IF k = lvl THEN Str(counts[k])
    ELSE Str(counts[k]) \o <<".">> \o JoinCounts(counts, k + 1, lvl)

\* the level handed to _find_section_key for the known-section test
KeyLevel(level_from_style, number) ==
    IF level_from_style # None THEN level_from_style
    ELSE IF number # None THEN Some(CountDots(number) + 1)
    ELSE None

\* is_heading_style or (number and len(text) <= 120)
\*   or (looks_like_known_section and len(title) <= 60)
\* a mutant of IsHeading that takes every numbered paragraph, however long
IsHeadingAnyLength(text, title, number, level_from_style) ==
    \/ level_from_style # None
    \/ number # None
    \/ /\ FindSectionKey(title, KeyLevel(level_from_style, number), number) # None
       /\ TextLen(title) <= 60
IsHeading(text, title, number, level_from_style) ==
    \/ level_from_style # None
    \/ (number # None /\ TextLen(text) <= 120)
    \/ /\ FindSectionKey(title, KeyLevel(level_from_style, number), number) # None
       /\ TextLen(title) <= 60

\* Heading(text=title, level=level, number=number, para_index=idx)
\* a mutant of HeadingOf that prefers the level of the style to the one of the number
HeadingOfStyleFirst(title, number, level_from_style, i) ==
    [text |-> title,
     level |-> IF level_from_style # None THEN level_from_style[1]
               ELSE IF number # None THEN CountDots(number) + 1
               ELSE 1,
     number |-> number,
     para_index |-> i]
HeadingOf(title, number, level_from_style, i) ==
    [text |-> title,
     level |-> IF number # None THEN CountDots(number) + 1
               ELSE IF level_from_style # None THEN level_from_style[1]
               ELSE 1,
     number |-> number,
     para_index |-> i]

\* the end of the loop body, once number and title are known
ClassifyNumbered(text, title, number, level_from_style, i, counts) ==
    [para |-> text,
     heading |-> IF IsHeading(text, title, number, level_from_style)
                 THEN <<HeadingOf(title, number, level_from_style, i)>>
                 ELSE <<>>,
     counts |-> counts]

\* the loop body after NUMBERING_RE.match: a heading-styled paragraph with ilvl
\* and no explicit number gets its number from the outline counters
ClassifyMatched(text, m, level_from_style, ilvl, i, counts) ==
    IF m.number = None /\ level_from_style # None /\ ilvl # None
    THEN ClassifyNumbered(text, m.title,
                          JoinCounts(AutoCountsAfter(counts, OutlineLevel(ilvl[1])),
                                     1, OutlineLevel(ilvl[1])),
                          level_from_style, i,
                          AutoCountsAfter(counts, OutlineLevel(ilvl[1])))
    ELSE ClassifyNumbered(text, m.title, m.number, level_from_style, i, counts)

\* the body of the loop over the walked paragraphs, for paragraph p at index i
\* with the counters counts: the paragraph text appended, the heading appended
\* (a sequence of at most one Heading) and the counters afterwards
ClassifyIgnoringTable(p, in_table, i, counts) ==
    IF PText(p) = <<>>
    THEN [para |-> <<>>, heading |-> <<>>, counts |-> counts]
    ELSE ClassifyMatched(PText(p), NumberingMatch(PText(p)),
                         HeadingLevelFromStyle(PStyle(p)), PIlvl(p), i, counts)
Classify(p, in_table, i, counts) ==
    IF PText(p) = <<>>
    THEN [para |-> <<>>, heading |-> <<>>, counts |-> counts]
    ELSE IF in_table
    THEN [para |-> PText(p), heading |-> <<>>, counts |-> counts]
    ELSE ClassifyMatched(PText(p), NumberingMatch(PText(p)),
                         HeadingLevelFromStyle(PStyle(p)), PIlvl(p), i, counts)

\* the first paragraph (0-based) whose normalized text is "inhaltsverzeichnis"
TocTitleIndexes(ps) ==
    {i \in 0..(Len(ps) - 1) :
        NormalizeSimple(ps[i + 1]) = <<"inhaltsverzeichnis">>}

Min2(a, b) == IF a <= b THEN a ELSE b

Max2(a, b) == IF a >= b THEN a ELSE b

TocScanCap == 500

TocWindow == 8

TocNonTocMin == 5

TocFallbackSpan == 250

\* window = [x for x in paragraphs[j: min(max_scan, j + 8)] if _normalize_simple(x)]
\* the 0-based indexes of its paragraphs
TocWindowAtNonEmpty(ps, j, max_scan) ==
    {k \in j..(max_scan - 1) :
        /\ NormalizeSimple(ps[k + 1]) # <<>>
        /\ Cardinality({m \in j..(k - 1) : NormalizeSimple(ps[m + 1]) # <<>>}) < TocWindow}
TocWindowAt(ps, j, max_scan) ==
    {k \in j..(Min2(max_scan, j + TocWindow) - 1) : NormalizeSimple(ps[k + 1]) # <<>>}

\* window and sum(1 for x in window if not _looks_like_toc_line(x)) >= 5
TocEndsAt(ps, j, max_scan) ==
    LET window == TocWindowAt(ps, j, max_scan)
    IN  /\ window # {}
        /\ Cardinality({k \in window : ~LooksLikeTocLine(ps[k + 1])}) >= TocNonTocMin

\* _find_toc_range: None or (toc_start, toc_end)
FindTocRange(ps) ==
    LET titles == TocTitleIndexes(ps)
        toc_start == CHOOSE i \in titles : \A k \in titles : i <= k
        max_scan == Min2(Len(ps), toc_start + TocScanCap)
        ends == {j \in (toc_start + 1)..(max_scan - 1) : TocEndsAt(ps, j, max_scan)}
    IN  IF titles = {} THEN None
        ELSE IF ends # {}
        THEN Some([toc_start |-> toc_start,
                   toc_end |-> CHOOSE j \in ends : \A k \in ends : j <= k])
        ELSE Some([toc_start |-> toc_start,
                   toc_end |-> Min2(Len(ps), toc_start + TocFallbackSpan)])

\* the headings kept by the TOC filter at the end of
\* _extract_paragraphs_and_headings_from_xml
InToc(toc, ps, h) ==
    /\ toc.toc_start <= h.para_index
    /\ h.para_index < toc.toc_end
    /\ LooksLikeTocLine(ps[h.para_index + 1])

FilterTocHeadingsWholeRange(ps, hs) ==
    LET toc == FindTocRange(ps)
        Keep(h) == ~(toc[1].toc_start <= h.para_index /\ h.para_index < toc[1].toc_end)
    IN  IF toc = None THEN hs ELSE SelectSeq(hs, Keep)
FilterTocHeadings(ps, hs) ==
    LET toc == FindTocRange(ps)
        Keep(h) == ~InToc(toc[1], ps, h)
    IN  IF toc = None THEN hs ELSE SelectSeq(hs, Keep)

(***************************************************************************)
(* Body walker: _walk_body_paragraphs.                                      *)
(*                                                                          *)
(* The body tree is held in document (pre-)order: node i has a tag and a    *)
(* depth; the root (the body element) is node 0 at depth 0.  The children   *)
(* of a node are the nodes one level deeper that follow it before the next  *)
(* node at its own depth or above.                                          *)
(***************************************************************************)
Tags == {"tbl", "p", "r"}

DepthOf(t, i) == IF i = 0 THEN 0 ELSE t[i].depth

TagOf(t, i) == IF i = 0 THEN "body" ELSE t[i].tag

\* the node a new node at depth d would hang under: the last node at depth d - 1
ParentAt(t, d) ==
    IF d = 1 THEN 0
    ELSE CHOOSE j \in 1..Len(t) :
            /\ DepthOf(t, j) = d - 1
            /\ \A k \in (j + 1)..Len(t) : DepthOf(t, k) # d - 1

\* a node that may follow the last node of t: any depth from 1 to one below the
\* last node; a paragraph's direct children are runs and properties, never a
\* paragraph or a table (those only occur deeper, in a text box).
NextNodes(t) ==
    {nd \in [tag : Tags, depth : 1..(DepthOf(t, Len(t)) + 1)] :
        TagOf(t, ParentAt(t, nd.depth)) = "p" => nd.tag = "r"}

RECURSIVE TreesOfSize(_)
TreesOfSize(n) ==
    IF n = 0 THEN {<<>>}
    ELSE UNION {{Append(t, nd) : nd \in NextNodes(t)} : t \in TreesOfSize(n - 1)}

Trees == UNION {TreesOfSize(n) : n \in 0..MaxNodes}

\* list(node): the children of node i, in document order
IsChild(t, i, j) ==
    /\ j > i
    /\ DepthOf(t, j) = DepthOf(t, i) + 1
    /\ \A k \in (i + 1)..j : DepthOf(t, k) > DepthOf(t, i)

RECURSIVE ChildrenFrom(_, _, _)
ChildrenFrom(t, i, j) ==
    IF j > Len(t) THEN <<>>
    ELSE IF IsChild(t, i, j) THEN <<j>> \o ChildrenFrom(t, i, j + 1)
    ELSE ChildrenFrom(t, i, j + 1)

Children(t, i) == ChildrenFrom(t, i, i + 1)

\* the in_table argument walk() passes down for a child with this tag
ChildInTableReset(tag, in_table) == tag = "tbl"

ChildInTable(tag, in_table) == IF tag = "tbl" THEN TRUE ELSE in_table

Top == stack[Len(stack)]

TopChildren == Children(body, Top.node)

Advance == [stack EXCEPT ![Len(stack)].pos = @ + 1]

\* for child in list(node): tag == "tbl" -> yield from walk(child, True)
WalkTbl ==
    /\ stack # <<>>
    /\ Top.pos <= Len(TopChildren)
    /\ TagOf(body, TopChildren[Top.pos]) = "tbl"
    /\ stack' = Append(Advance,
                       [node |-> TopChildren[Top.pos], pos |-> 1,
                        in_table |-> ChildInTable("tbl", Top.in_table)])
    /\ UNCHANGED <<calls, body, yielded, extVars, segVars, engVars, pc>>

\* tag == "p" -> yield (child, in_table)
WalkP ==
    /\ stack # <<>>
    /\ Top.pos <= Len(TopChildren)
    /\ TagOf(body, TopChildren[Top.pos]) = "p"
    /\ yielded' = Append(yielded, [node |-> TopChildren[Top.pos], in_table |-> Top.in_table])
    /\ stack' = Advance
    /\ UNCHANGED <<calls, body, extVars, segVars, engVars, pc>>

\* else -> yield from walk(child, in_table)
WalkOther ==
    /\ stack # <<>>
    /\ Top.pos <= Len(TopChildren)
    /\ TagOf(body, TopChildren[Top.pos]) \notin {"tbl", "p"}
    /\ stack' = Append(Advance,
                       [node |-> TopChildren[Top.pos], pos |-> 1,
                        in_table |-> ChildInTable(TagOf(body, TopChildren[Top.pos]), Top.in_table)])
    /\ UNCHANGED <<calls, body, yielded, extVars, segVars, engVars, pc>>

\* the for loop of a walk() activation is exhausted: the generator returns
WalkReturn ==
    /\ stack # <<>>
    /\ Top.pos > Len(TopChildren)
    /\ stack' = SubSeq(stack, 1, Len(stack) - 1)
    /\ UNCHANGED <<calls, body, yielded, extVars, segVars, engVars, pc>>

\* the state of the extractor before a document is handed to it
ExtractorIdle ==
    /\ elems = <<>>
    /\ idx = 0
    /\ paragraphs = <<>>
    /\ headings = <<>>
    /\ auto_counts = [k \in 0..9 |-> 0]
    /\ extracted = <<>>
    /\ sections = <<>>
    /\ returned = <<>>
    /\ EngineIdle

InitWalk ==
    /\ body \in Trees
    /\ stack = <<[node |-> 0, pos |-> 1, in_table |-> FALSE]>>
    /\ yielded = <<>>
    /\ ExtractorIdle
    /\ calls = <<>>
    /\ pc = "walk"

NextWalk == WalkTbl \/ WalkP \/ WalkOther \/ WalkReturn

SpecWalk == InitWalk /\ [][NextWalk]_vars

(***************************************************************************)
(* Section segmenter: _build_sections.                                      *)
(***************************************************************************)
\* sorted(headings, key=lambda x: x.para_index): a new list, stable
RECURSIVE InsertByParaIndex(_, _)
InsertByParaIndex(sorted, h) ==
    IF sorted = <<>> THEN <<h>>
    ELSE IF sorted[Len(sorted)].para_index <= h.para_index THEN Append(sorted, h)
    ELSE Append(InsertByParaIndex(SubSeq(sorted, 1, Len(sorted) - 1), h), sorted[Len(sorted)])

RECURSIVE SortedByParaIndex(_)
SortedByParaIndex(hs) ==
    IF hs = <<>> THEN <<>>
    ELSE InsertByParaIndex(SortedByParaIndex(SubSeq(hs, 1, Len(hs) - 1)), hs[Len(hs)])

\* sec_keys = [_find_section_key(h.text, level=h.level, number=h.number) for h in hs]
SecKeys(hs) ==
    [i \in 1..Len(hs) |-> FindSectionKey(hs[i].text, Some(hs[i].level), hs[i].number)]

\* end = len(paragraphs), or the para_index of the next heading with a key
SectionEndAnyHeading(ps, hs, sec_keys, i) ==
    IF i = Len(hs) THEN Len(ps) ELSE hs[i + 1].para_index
\* a mutant of SectionEnd that lets every section run to the end of the document
SectionEndOfDocument(ps, hs, sec_keys, i) == Len(ps)
SectionEnd(ps, hs, sec_keys, i) ==
    LET later == {j \in (i + 1)..Len(hs) : sec_keys[j] # None}
    IN  IF later = {} THEN Len(ps)
        ELSE hs[CHOOSE j \in later : \A k \in later : j <= k].para_index

\* paragraphs[start:end]
Slice(ps, start, end) == SubSeq(ps, start + 1, Min2(end, Len(ps)))

NotBlank(p) == p # <<>> /\ Strip(p) # <<>>

\* the Section built for heading h with key key
SectionForEndExclusive(ps, h, key, end) ==
    LET start == h.para_index + 1
        slice_paras == SelectSeq(Slice(ps, start, end), NotBlank)
        section_text == Strip(JoinLines(slice_paras))
    IN  [key |-> key,
         title |-> h.text,
         start_para |-> start,
         end_para |-> Max2(start, end),
         text |-> section_text,
         word_count |-> WordCount(section_text)]
SectionFor(ps, h, key, end) ==
    LET start == h.para_index + 1
        slice_paras == SelectSeq(Slice(ps, start, end), NotBlank)
        section_text == Strip(JoinLines(slice_paras))
    IN  [key |-> key,
         title |-> h.text,
         start_para |-> start,
         end_para |-> Max2(start, end - 1),
         text |-> section_text,
         word_count |-> WordCount(section_text)]

\* the loop over hs from index i on, with the sections built so far; a mutant
\* that lets a later heading overwrite the entry of its key
RECURSIVE BuildFromLastWins(_, _, _, _, _)
BuildFromLastWins(ps, hs, sec_keys, i, secs) ==
    IF i > Len(hs) THEN secs
    ELSE IF sec_keys[i] = None THEN BuildFromLastWins(ps, hs, sec_keys, i + 1, secs)
    ELSE BuildFromLastWins(ps, hs, sec_keys, i + 1,
            (sec_keys[i][1] :> SectionFor(ps, hs[i], sec_keys[i][1],
                                          SectionEnd(ps, hs, sec_keys, i))) @@ secs)

RECURSIVE BuildFrom(_, _, _, _, _)
BuildFrom(ps, hs, sec_keys, i, secs) ==
    IF i > Len(hs) THEN secs
    ELSE IF sec_keys[i] = None THEN BuildFrom(ps, hs, sec_keys, i + 1, secs)
    ELSE IF sec_keys[i][1] \in DOMAIN secs THEN BuildFrom(ps, hs, sec_keys, i + 1, secs)
    ELSE BuildFrom(ps, hs, sec_keys, i + 1,
            secs @@ (sec_keys[i][1] :> SectionFor(ps, hs[i], sec_keys[i][1],
                                                  SectionEnd(ps, hs, sec_keys, i))))

\* _build_sections(paragraphs, headings): sections starts as the empty dict
BuildSections(ps, hs_in) ==
    LET hs == SortedByParaIndex(hs_in)
    IN  BuildFrom(ps, hs, SecKeys(hs), 1, <<>>)

\* what a call of _build_sections leaves in its argument lists: it reads
\* paragraphs by slicing and sorts a copy of headings; a mutant that consumes
\* the heading list it sorted
HeadingsAfterBuildConsumed(hs) == IF hs = <<>> THEN hs ELSE Tail(hs)

HeadingsAfterBuild(hs) == hs

ParagraphsAfterBuild(ps) == ps

(***************************************************************************)
(* The extraction pipeline as a state machine.                              *)
(***************************************************************************)
WalkerIdle ==
    /\ body = <<>>
    /\ stack = <<>>
    /\ yielded = <<>>

\* _extract_paragraphs_and_headings_from_xml is entered with the walked paragraphs
ExtractorStarts(doc_elems) ==
    /\ WalkerIdle
    /\ elems = doc_elems
    /\ idx = 0
    /\ paragraphs = <<>>
    /\ headings = <<>>
    /\ auto_counts = [k \in 0..9 |-> 0]
    /\ extracted = <<>>
    /\ sections = <<>>
    /\ returned = <<>>
    /\ calls = <<>>
    /\ EngineIdle
    /\ pc = "classify"

\* one pass of: for idx, (p, in_table) in enumerate(_walk_body_paragraphs(body))
ClassifyParagraph ==
    /\ pc = "classify"
    /\ idx < Len(elems)
    /\ LET r == Classify(elems[idx + 1].p, elems[idx + 1].in_table, idx, auto_counts)
       IN  /\ paragraphs' = Append(paragraphs, r.para)
           /\ headings' = headings \o r.heading
           /\ auto_counts' = r.counts
    /\ idx' = idx + 1
    /\ UNCHANGED <<calls, walkVars, elems, extracted, segVars, engVars, pc>>

\* after the loop: the TOC range is found, the headings in it are dropped, and
\* the function returns (paragraphs, headings)
FilterToc ==
    /\ pc = "classify"
    /\ idx = Len(elems)
    /\ headings' = FilterTocHeadings(paragraphs, headings)
    /\ extracted' = [paragraphs |-> paragraphs, headings |-> headings',
                     classified |-> headings]
    /\ pc' = "extracted"
    /\ UNCHANGED <<calls, walkVars, elems, idx, paragraphs, auto_counts, segVars, engVars>>

\* extract_docx: sections = _build_sections(paragraphs, headings)
BuildSectionsCall ==
    /\ pc = "extracted"
    /\ sections' = BuildSections(paragraphs, headings)
    /\ returned' = Append(returned, sections')
    /\ headings' = HeadingsAfterBuild(headings)
    /\ paragraphs' = ParagraphsAfterBuild(paragraphs)
    /\ pc' = "built"
    /\ UNCHANGED <<calls, walkVars, elems, idx, auto_counts, extracted, engVars>>

\* a further call of _build_sections on the same argument lists
BuildSectionsAgain ==
    /\ pc = "built"
    /\ Len(returned) < MaxCalls
    /\ sections' = BuildSections(paragraphs, headings)
    /\ returned' = Append(returned, sections')
    /\ headings' = HeadingsAfterBuild(headings)
    /\ paragraphs' = ParagraphsAfterBuild(paragraphs)
    /\ UNCHANGED <<calls, walkVars, elems, idx, auto_counts, extracted, pc, engVars>>

(***************************************************************************)
(* Documents: the walked paragraphs that are fed to the extractor.          *)
(***************************************************************************)
Para(text, style, ilvl, in_table) ==
    [p |-> [text |-> text, style |-> style, ilvl |-> ilvl], in_table |-> in_table]

\* a paragraph with no style, outside any table
Plain(text) == Para(text, <<>>, None, FALSE)

RECURSIVE SeqsOfLen(_, _)
SeqsOfLen(S, n) ==
    IF n = 0 THEN {<<>>}
    ELSE UNION {{Append(q, x) : x \in S} : q \in SeqsOfLen(S, n - 1)}

SeqsUpTo(S, n) == UNION {SeqsOfLen(S, k) : k \in 0..n}

\* paragraphs of a thesis body: chapter titles (two of them for the references),
\* a numbered sub-heading, running text, an empty paragraph
SegParagraphs ==
    {Plain(<<"Literaturverzeichnis">>),
     Plain(<<"Quellen">>),
     Plain(<<"1", " ", "Einleitung">>),
     Plain(<<"2", ".", "1", " ", "Hintergrund">>),
     Plain(<<"Mehr", " ", "Text">>),
     Plain(<<>>)}

InitSeg == \E d \in SeqsUpTo(SegParagraphs, MaxParas) : ExtractorStarts(d)

NextSeg == ClassifyParagraph \/ FilterToc \/ BuildSectionsCall \/ BuildSectionsAgain

SpecSeg == InitSeg /\ [][NextSeg]_vars

(***************************************************************************)
(* C10: body walker.                                                        *)
(***************************************************************************)
Ancestors(t, i) ==
    {j \in 1..(i - 1) : /\ DepthOf(t, j) < DepthOf(t, i)
                        /\ \A k \in (j + 1)..i : DepthOf(t, k) > DepthOf(t, j)}

HasAncestor(t, i, tag) == \E j \in Ancestors(t, i) : TagOf(t, j) = tag

NodeIds(t) == [i \in 1..Len(t) |-> i]

AllParagraphNodes(t) ==
    LET Keep(i) == TagOf(t, i) = "p" IN SelectSeq(NodeIds(t), Keep)

OuterParagraphNodes(t) ==
    LET Keep(i) == TagOf(t, i) = "p" /\ ~HasAncestor(t, i, "p") IN SelectSeq(NodeIds(t), Keep)

YieldedNodes == [k \in 1..Len(yielded) |-> yielded[k].node]

YieldedFlagsRight ==
    \A k \in 1..Len(yielded) :
        yielded[k].in_table = HasAncestor(body, yielded[k].node, "tbl")

NoNodeTwice ==
    \A k, m \in 1..Len(yielded) : k # m => yielded[k].node # yielded[m].node

WalkDone == stack = <<>>

\* C10 as claimed: the walker yields all paragraph nodes of the tree, in document
\* order, each once, flagged in_table iff it has a table ancestor.
C10_AsClaimed ==
    /\ YieldedFlagsRight
    /\ NoNodeTwice
    /\ WalkDone => YieldedNodes = AllParagraphNodes(body)

\* C10 (amended): the walker yields, in depth-first document order and each once,
\* the paragraph nodes that are not nested inside another paragraph, and it
\* flags each in_table iff it has a table ancestor at any depth.
C10_WalkerYieldsOuterParagraphs ==
    /\ YieldedFlagsRight
    /\ NoNodeTwice
    /\ YieldedNodes = SubSeq(OuterParagraphNodes(body), 1, Len(yielded))
    /\ WalkDone => YieldedNodes = OuterParagraphNodes(body)

\* a finished walk that yielded a paragraph two containers below a table and a
\* paragraph outside any table
C10_Witness ==
    /\ WalkDone
    /\ \E k \in 1..Len(yielded) :
          /\ yielded[k].in_table
          /\ DepthOf(body, yielded[k].node) >= 3
          /\ TagOf(body, yielded[k].node - 1) = "r"
    /\ \E k \in 1..Len(yielded) : ~yielded[k].in_table
(***************************************************************************)
(* C6: section uniqueness.                                                  *)
(***************************************************************************)
\* the key heading i of the heading list resolves to (None when it has none)
KeyOfHeading(hs, i) == FindSectionKey(hs[i].text, Some(hs[i].level), hs[i].number)

\* the first heading of the list (smallest para_index) resolving to the key of heading i
FirstWithKey(hs, i) ==
    CHOOSE j \in 1..Len(hs) :
        /\ KeyOfHeading(hs, j) = KeyOfHeading(hs, i)
        /\ \A k \in 1..Len(hs) :
              KeyOfHeading(hs, k) = KeyOfHeading(hs, i) => hs[j].para_index <= hs[k].para_index

\* C6: once _build_sections has returned, every key some heading resolves to
\* has exactly one Section, that Section is the one of the first heading (by
\* para_index) resolving to the key, no Section exists for any other key, and
\* the heading list still holds every heading, the later ones included
C6_SectionUniqueness ==
    pc = "built" =>
        /\ \A i \in 1..Len(headings) :
              KeyOfHeading(headings, i) # None =>
                  LET key == KeyOfHeading(headings, i)[1]
                      first == headings[FirstWithKey(headings, i)]
                  IN  /\ key \in DOMAIN sections
                      /\ sections[key].key = key
                      /\ sections[key].title = first.text
                      /\ sections[key].start_para = first.para_index + 1
        /\ \A key \in DOMAIN sections :
              \E i \in 1..Len(headings) : KeyOfHeading(headings, i) = Some(key)
        /\ headings = extracted.headings

\* two headings with different titles resolve to one key and the map is built
C6_Witness ==
    /\ pc = "built"
    /\ \E i, j \in 1..Len(headings) :
          /\ i < j
          /\ KeyOfHeading(headings, i) # None
          /\ KeyOfHeading(headings, i) = KeyOfHeading(headings, j)
          /\ headings[i].text # headings[j].text
          /\ sections[KeyOfHeading(headings, i)[1]].title = headings[i].text

OutlinePara(ilvl) == Para(<<"Kapitel">>, <<"Heading", "1">>, Some(ilvl), FALSE)

\* the list levels drawn: the shallow ones and the deepest of the nine
OutlineIlvls == (0..MaxIlvl) \cup {8}

OutlineExampleDepths == <<0, 0, 1, 0, 1, 1, 0>>

OutlineDocs ==
    {[k \in 1..Len(ds) |-> OutlinePara(ds[k])] :
        ds \in SeqsUpTo(OutlineIlvls, MaxOutline) \cup {OutlineExampleDepths}}

InitOutline == \E d \in OutlineDocs : ExtractorStarts(d)

NextOutline == ClassifyParagraph \/ FilterToc

SpecOutline == InitOutline /\ [][NextOutline]_vars

\* the ilvl values d1..dn of the document
DepthsOf(es) == [k \in 1..Len(es) |-> es[k].p.ilvl[1]]

\* the dot-join of the counters 1..depth, as a sequence of integers
RECURSIVE NumberParts(_)
NumberParts(number) ==
    LET dots == {i \in 1..Len(number) : number[i] = "."}
        first == CHOOSE i \in dots : \A j \in dots : i <= j
    IN  IF number = <<>> THEN <<>>
        ELSE IF dots = {} THEN <<IntOf(number)>>
        ELSE <<IntOf(SubSeq(number, 1, first - 1))>>
                 \o NumberParts(SubSeq(number, first + 1, Len(number)))

\* one pass of the classifier over a paragraph at depth d = ilvl + 1: the
\* counter at d is incremented, the deeper ones are zero, the counter at 1 is
\* set to 1 if it was 0 and d > 1, the others are as before, and the heading
\* appended carries the counters 1..d
OutlineStep ==
    idx' = idx + 1 =>
        LET d == elems[idx'].p.ilvl[1] + 1
            h == headings'[Len(headings')]
        IN  /\ auto_counts'[d] = auto_counts[d] + 1
            /\ \A k \in (d + 1)..9 : auto_counts'[k] = 0
            /\ \A k \in 1..(d - 1) :
                  auto_counts'[k] = IF k = 1 /\ auto_counts[1] = 0 THEN 1 ELSE auto_counts[k]
            /\ Len(headings') = Len(headings) + 1
            /\ h.para_index = idx
            /\ NumberParts(h.number) = [k \in 1..d |-> auto_counts'[k]]

\* the synthesized numbers of the example depths
OutlineExampleNumbers ==
    <<<<"1">>, <<"2">>, <<"2", ".", "1">>, <<"3">>, <<"3", ".", "1">>,
      <<"3", ".", "2">>, <<"4">>>>

OutlineExampleHolds ==
    (pc = "extracted" /\ DepthsOf(elems) = OutlineExampleDepths) =>
        [k \in 1..Len(headings) |-> headings[k].number] = OutlineExampleNumbers

\* C7: for heading-styled paragraphs without explicit number at ilvl d1..dn
\* (0..8), the k-th synthesized number is the dot-join of the counters
\* 1..(dk+1) after the counter at dk+1 is incremented, the deeper ones zeroed
\* and the depth-1 counter backfilled to 1; depths [0,0,1,0,1,1,0] give
\* 1, 2, 2.1, 3, 3.1, 3.2, 4
C7_OutlineCounters == [][OutlineStep]_vars /\ []OutlineExampleHolds

\* the example document has been classified
C7_Witness ==
    /\ pc = "extracted"
    /\ DepthsOf(elems) = OutlineExampleDepths
    /\ Len(headings) = 7
    /\ headings[3].number = <<"2", ".", "1">>

(***************************************************************************)
(* C5: TOC exclusion.                                                       *)
(***************************************************************************)
\* the k-th line of a table of contents: number, title, dot leader, page
TocEntry(k) ==
    Str(k) \o <<".", " ">>
           \o <<IF k = 1 THEN "Einleitung" ELSE IF k = 2 THEN "Methode" ELSE "Kapitel">>
           \o <<" ", ".", ".", ".", ".", ".", ".", ".", " ">>
           \o Str(IF k = 1 THEN 3 ELSE 8 + k)

Repeat(x, n) == [k \in 1..n |-> x]

\* a document with a table of contents: the title, k entry lines, then the
\* chapters Einleitung and Methode with n1 and n2 paragraphs of running text
TocDoc(k, n1, n2, text) ==
    <<Plain(<<"Inhaltsverzeichnis">>)>>
        \o [i \in 1..k |-> Plain(TocEntry(i))]
        \o <<Plain(<<"Einleitung">>)>> \o Repeat(Plain(text), n1)
        \o <<Plain(<<"Methode">>)>> \o Repeat(Plain(text), n2)

TocDocs ==
    {TocDoc(k, n1, n2, text) :
        k \in 1..MaxToc, n1 \in 0..MaxText, n2 \in 0..MaxText,
        text \in {<<"Text">>, <<"Text", ".", ".", ".">>}}

InitToc == \E d \in TocDocs : ExtractorStarts(d)

NextToc == ClassifyParagraph \/ FilterToc

SpecToc == InitToc /\ [][NextToc]_vars

\* a TOC entry line: a numbered line with a dot leader and a page number
IsTocEntry(p) ==
    /\ NumberingMatch(p).number # None
    /\ HasDotLeader(NormalizeSimple(p))
    /\ PageNumberAt(NormalizeSimple(p)) > 0

\* the number of TOC entry lines that follow the title at index 0
RECURSIVE TocBlockLen(_, _)
TocBlockLen(ps, k) ==
    IF k + 2 <= Len(ps) /\ IsTocEntry(ps[k + 2]) THEN TocBlockLen(ps, k + 1) ELSE k

\* C5: when the extractor has returned, no line of the TOC block is in the
\* heading list, and every classified heading after the block whose paragraph
\* does not look like a TOC line is in it
C5_TocExcluded ==
    pc = "extracted" =>
        LET k == TocBlockLen(paragraphs, 0)
        IN  /\ \A i \in 1..Len(headings) : headings[i].para_index \notin 1..k
            /\ \A i \in 1..Len(extracted.classified) :
                  LET h == extracted.classified[i]
                  IN  (h.para_index > k /\ ~LooksLikeTocLine(paragraphs[h.para_index + 1]))
                          => \E j \in 1..Len(headings) : headings[j] = h

(***************************************************************************)
(* The words of the model.  The texts of the model are written with the    *)
(* words of CapWords and LowerWords; what the code finds out about a word  *)
(* character by character (a substring, a prefix, the letters without      *)
(* their diacritics) is tabulated here for these words.                     *)
(***************************************************************************)
LowerWords ==
    {"abbildung", "al", "analyse", "and", "arbeit", "auf", "bedeutet", "confirm",
     "daraus", "das", "daten", "datenanalyse", "der", "die", "diese", "dieser",
     "et", "folglich", "folgt", "frage", "für", "im", "ist", "kritisch",
     "lautet", "literatur", "mehr", "methode", "nach", "quelle", "rahmen", "show",
     "siehe", "somit", "stichprobe", "studien", "tabelle", "text", "und", "untersucht",
     "vergleich", "wert", "werte", "wie", "wirkt", "zeigen", "ziel", "über"}

Vocabulary == DOMAIN CapWords \cup LowerWords

\* unicodedata.normalize("NFKD", w) without the combining marks, for the
\* lower-case words that change
UnaccentWords ==
    ("für" :> "fur") @@
    ("müller" :> "muller") @@
    ("über" :> "uber") @@
    ("überschrift" :> "uberschrift")

\* <<w, a>>: the keyword w is a substring of the word a, and w # a
WordInfixes ==
    {<<"analyse", "datenanalyse">>, <<"daten", "datenanalyse">>, <<"literatur", "literaturrecherche">>,
     <<"literatur", "literaturverzeichnis">>}

\* <<w, a>>: a.startswith(w), and w # a
WordPrefixes ==
    {<<"abbildung", "abbildungsverzeichnis">>, <<"daten", "datenanalyse">>, <<"die", "diese">>,
     <<"die", "dieser">>, <<"diese", "dieser">>, <<"forschung", "forschungsfrage">>,
     <<"literatur", "literaturrecherche">>, <<"literatur", "literaturverzeichnis">>, <<"quelle", "quellen">>,
     <<"stand", "standard">>, <<"tabelle", "tabellenverzeichnis">>, <<"uber", "uberschrift">>,
     <<"wert", "werte">>, <<"über", "überschrift">>}

\* <<w, a>>: a.endswith(w), and w # a
WordSuffixes ==
    {<<"analyse", "datenanalyse">>}

(***************************************************************************)
(* Rules.  A Finding is modelled by its rule id, category, severity, the    *)
(* literal text of its message up to the first interpolated value (the dash *)
(* U+2013 of a message is written "-"), and, as evidence, the values its    *)
(* message and evidence interpolate.                                        *)
(***************************************************************************)
Finding(rule_id, category, severity, message, evidence) ==
    [rule_id |-> rule_id, category |-> category, severity |-> severity,
     message |-> message, evidence |-> evidence]

\* [x for x in xs if x in keys], for a list of keys and a dict
KeysIn(xs, dict) == SelectSeq(xs, LAMBDA k : k \in DOMAIN dict)

KeysNotIn(xs, dict) == SelectSeq(xs, LAMBDA k : k \notin DOMAIN dict)

\* k in text, for a keyword k of letters (a sequence of words separated by
\* single spaces) and a lower-cased text: the first word ends an atom, the
\* last one starts an atom, the ones between are atoms
EndsWithWord(a, w) == a = w \/ <<w, a>> \in WordSuffixes

StartsWithWord(a, w) == a = w \/ <<w, a>> \in WordPrefixes

HasWordInside(a, w) == a = w \/ <<w, a>> \in WordInfixes

SubstringAt(text, i, k) ==
    IF Len(k) = 1 THEN HasWordInside(text[i], k[1])
    ELSE /\ i + Len(k) - 1 <= Len(text)
         /\ EndsWithWord(text[i], k[1])
         /\ StartsWithWord(text[i + Len(k) - 1], k[Len(k)])
         /\ \A j \in 2..(Len(k) - 1) : text[i + j - 1] = k[j]

SubstringIn(k, text) == \E i \in 1..Len(text) : SubstringAt(text, i, k)

\* [k for k in keywords if k in text]
Hits(keywords, text) == SelectSeq(keywords, LAMBDA k : SubstringIn(k, text))

(***************************************************************************)
(* structure_rules.py                                                       *)
(***************************************************************************)
REQUIRED ==
    <<"einleitung", "theorie", "methode", "ergebnisse", "diskussion", "fazit", "literatur">>

\* a mutant of RequiredChaptersRule that reports every required chapter
RequiredChaptersRuleAll(doc, ai) ==
    <<Finding("STRUCT-007", "Struktur", "error", "Fehlende Pflichtkapitel: ", REQUIRED)>>

RequiredChaptersRule(doc, ai) ==
    IF KeysNotIn(REQUIRED, doc.sections) # <<>>
    THEN <<Finding("STRUCT-007", "Struktur", "error", "Fehlende Pflichtkapitel: ",
                   KeysNotIn(REQUIRED, doc.sections))>>
    ELSE <<Finding("STRUCT-007", "Struktur", "info", "Alle Pflichtkapitel wurden gefunden.",
                   <<>>)>>

(***************************************************************************)
(* heading_rules.py                                                         *)
(***************************************************************************)
\* num.split(".")
RECURSIVE SplitDots(_)
SplitDots(num) ==
    IF \A i \in 1..Len(num) : num[i] # "." THEN <<num>>
    ELSE LET first == CHOOSE i \in 1..Len(num) :
                          num[i] = "." /\ \A j \in 1..(i - 1) : num[j] # "."
         IN  <<SubSeq(num, 1, first - 1)>> \o SplitDots(SubSeq(num, first + 1, Len(num)))

\* _parse_number: [int(x) for x in num.split(".") if x.strip().isdigit()]
ParseNumber(num) ==
    LET kept == SelectSeq(SplitDots(num), LAMBDA x : IsDigitText(Strip(x)))
    IN  [k \in 1..Len(kept) |-> IntOf(Strip(kept[k]))]

\* numbered = [h for h in doc.headings if h.number]
Numbered(doc) == SelectSeq(doc.headings, LAMBDA h : h.number # <<>>)

\* the level check of one heading
LevelFinding(h) ==
    IF h.level # Len(ParseNumber(h.number))
    THEN <<Finding("STRUCT-009", "Struktur", "warn",
                   "Überschriftenlevel passt evtl. nicht zur Nummerierung: '",
                   <<h.number, h.text>>)>>
    ELSE <<>>

\* the jump check of one heading against the parts of the previous one
\* (None before the first heading)
JumpFinding(h, parts, prev_parts) ==
    IF /\ prev_parts # None
       /\ Len(parts) = Len(prev_parts[1])
       /\ Len(parts) > 0
       /\ SubSeq(parts, 1, Len(parts) - 1) = SubSeq(prev_parts[1], 1, Len(parts) - 1)
       /\ parts[Len(parts)] > prev_parts[1][Len(parts)] + 1
    THEN <<Finding("STRUCT-009", "Struktur", "warn", "Möglicher Nummerierungssprung: vorher ",
                   <<prev_parts[1], h.number>>)>>
    ELSE <<>>

\* the loop over the numbered headings from index i on
RECURSIVE HierarchyLoop(_, _, _)
HierarchyLoop(numbered, i, prev_parts) ==
    IF i > Len(numbered) THEN <<>>
    ELSE LevelFinding(numbered[i])
             \o JumpFinding(numbered[i], ParseNumber(numbered[i].number), prev_parts)
             \o HierarchyLoop(numbered, i + 1, Some(ParseNumber(numbered[i].number)))

\* if not findings: findings.append(info); a mutant that leaves the list empty
OrConsistentNoFallback(findings, n) == findings

OrConsistent(findings, n) ==
    IF findings = <<>>
    THEN <<Finding("STRUCT-009", "Struktur", "info",
                   "Überschriftenhierarchie wirkt konsistent (heuristisch).", <<n>>)>>
    ELSE findings

HeadingHierarchyRule(doc, ai) ==
    IF Len(Numbered(doc)) = 0
    THEN <<Finding("STRUCT-009", "Struktur", "info",
                   "Keine nummerierten Überschriften gefunden (Check 9 übersprungen).", <<>>)>>
    ELSE OrConsistent(HierarchyLoop(Numbered(doc), 1, None), Len(Numbered(doc)))

\* max_depth: the largest len(_parse_number(h.number)) of the numbered headings
RECURSIVE MaxDepth(_)
MaxDepth(numbered) ==
    IF numbered = <<>> THEN 0
    ELSE Max2(Len(ParseNumber(Head(numbered).number)), MaxDepth(Tail(numbered)))

HeadingDepthRule(doc, ai) ==
    IF Numbered(doc) = <<>>
    THEN <<Finding("STRUCT-010", "Struktur", "info",
                   "Keine nummerierten Überschriften gefunden (Check 10 übersprungen).", <<>>)>>
    ELSE IF MaxDepth(Numbered(doc)) > 4
    THEN <<Finding("STRUCT-010", "Struktur", "info", "Gliederungstiefe ist hoch: ",
                   <<MaxDepth(Numbered(doc))>>)>>
    ELSE <<Finding("STRUCT-010", "Struktur", "info", "Maximale Gliederungstiefe: ",
                   <<MaxDepth(Numbered(doc))>>)>>

(***************************************************************************)
(* figures_tables_rules.py                                                  *)
(***************************************************************************)
TablesUnreferenced(doc) ==
    IF doc.tables_count > 0 /\ Cardinality(doc.table_refs) = 0
    THEN <<Finding("RES-026", "Ergebnisse", "error",
                   "Dokument enthält Tabellen, aber keine 'Tabelle <n>'-Referenzen im Text gefunden.",
                   <<doc.tables_count>>)>>
    ELSE <<>>

NoFigureRefs(doc) ==
    IF Cardinality(doc.figure_refs) = 0
    THEN <<Finding("RES-026", "Ergebnisse", "info",
                   "Keine 'Abbildung <n>'-Referenzen im Text gefunden (heuristisch).", <<>>)>>
    ELSE <<>>

OrReferenced(findings, doc) ==
    IF findings = <<>>
    THEN <<Finding("RES-026", "Ergebnisse", "info",
                   "Tabellen/Abbildungen scheinen im Text referenziert zu sein (heuristisch).",
                   <<Cardinality(doc.table_refs), Cardinality(doc.figure_refs)>>)>>
    ELSE findings

FiguresTablesReferencedRule(doc, ai) ==
    OrReferenced(TablesUnreferenced(doc) \o NoFigureRefs(doc), doc)

(***************************************************************************)
(* structure_quality_rules.py                                               *)
(***************************************************************************)
EXPECTED_ORDER ==
    <<"einleitung", "theorie", "methode", "ergebnisse", "diskussion", "fazit", "literatur">>

\* the keys of EXPECTED_ORDER that are missing and lie "in the middle"
MissingInBetween(doc) ==
    SelectSeq(KeysNotIn(EXPECTED_ORDER, doc.sections),
              LAMBDA key : key \in {"theorie", "methode", "ergebnisse", "diskussion"})

\* a mutant of ChapterOrderPlausibleRule that warns when the sections start
\* in another order than EXPECTED_ORDER
ChapterOrderPlausibleRuleByPosition(doc, ai) ==
    IF Len(KeysIn(EXPECTED_ORDER, doc.sections)) < 3
    THEN <<Finding("STRUCT-008", "Struktur", "info",
                   "Zu wenige Kapitel erkannt - Kapitelreihenfolge kann nicht sinnvoll geprüft werden.",
                   <<>>)>>
    ELSE IF \E i, j \in 1..Len(KeysIn(EXPECTED_ORDER, doc.sections)) :
               /\ i < j
               /\ doc.sections[KeysIn(EXPECTED_ORDER, doc.sections)[i]].start_para
                      > doc.sections[KeysIn(EXPECTED_ORDER, doc.sections)[j]].start_para
    THEN <<Finding("STRUCT-008", "Struktur", "warn",
                   "Kapitelreihenfolge/Struktur evtl. unplausibel, da zentrale Kapitel fehlen (heuristisch).",
                   MissingInBetween(doc))>>
    ELSE <<Finding("STRUCT-008", "Struktur", "info",
                   "Kapitelstruktur wirkt plausibel (V1 heuristisch, Reihenfolge wird später exakter).",
                   KeysIn(EXPECTED_ORDER, doc.sections))>>
ChapterOrderPlausibleRule(doc, ai) ==
    IF Len(KeysIn(EXPECTED_ORDER, doc.sections)) < 3
    THEN <<Finding("STRUCT-008", "Struktur", "info",
                   "Zu wenige Kapitel erkannt - Kapitelreihenfolge kann nicht sinnvoll geprüft werden.",
                   <<>>)>>
    ELSE IF MissingInBetween(doc) # <<>>
    THEN <<Finding("STRUCT-008", "Struktur", "warn",
                   "Kapitelreihenfolge/Struktur evtl. unplausibel, da zentrale Kapitel fehlen (heuristisch).",
                   MissingInBetween(doc))>>
    ELSE <<Finding("STRUCT-008", "Struktur", "info",
                   "Kapitelstruktur wirkt plausibel (V1 heuristisch, Reihenfolge wird später exakter).",
                   KeysIn(EXPECTED_ORDER, doc.sections))>>

\* max(counts, key=counts.get): the first key of keys with the largest word count
MaxKey(keys, secs) ==
    keys[CHOOSE i \in 1..Len(keys) :
            /\ \A j \in 1..Len(keys) : secs[keys[j]].word_count <= secs[keys[i]].word_count
            /\ \A j \in 1..(i - 1) : secs[keys[j]].word_count < secs[keys[i]].word_count]

\* min(counts, key=counts.get): the first key of keys with the smallest word count
MinKey(keys, secs) ==
    keys[CHOOSE i \in 1..Len(keys) :
            /\ \A j \in 1..Len(keys) : secs[keys[j]].word_count >= secs[keys[i]].word_count
            /\ \A j \in 1..(i - 1) : secs[keys[j]].word_count > secs[keys[i]].word_count]

\* min_v > 0 and max_v / min_v >= 3.0
Unbalanced(max_v, min_v) == min_v > 0 /\ max_v >= 3 * min_v

LengthFinding(max_k, max_v, min_k, min_v) ==
    IF Unbalanced(max_v, min_v)
    THEN <<Finding("STRUCT-011", "Struktur", "warn",
                   "Kapitelumfang wirkt unausgewogen (heuristisch).",
                   <<max_k, max_v, min_k, min_v>>)>>
    ELSE <<Finding("STRUCT-011", "Struktur", "info",
                   "Kapitelumfang wirkt grob ausgewogen (heuristisch).", <<>>)>>

LengthOfKeys(keys, secs) ==
    LengthFinding(MaxKey(keys, secs), secs[MaxKey(keys, secs)].word_count,
                  MinKey(keys, secs), secs[MinKey(keys, secs)].word_count)

ChapterLengthBalancedRule(doc, ai) ==
    IF Len(KeysIn(EXPECTED_ORDER, doc.sections)) < 3
    THEN <<Finding("STRUCT-011", "Struktur", "info",
                   "Zu wenige Kapitel erkannt - Kapitelumfang kann nicht sinnvoll geprüft werden.",
                   <<>>)>>
    ELSE LengthOfKeys(KeysIn(EXPECTED_ORDER, doc.sections), doc.sections)

(***************************************************************************)
(* method_results_rules.py                                                  *)
(***************************************************************************)
MethodChapterExistsRule(doc, ai) ==
    IF "methode" \in DOMAIN doc.sections
    THEN <<Finding("METH-019", "Methode", "info", "Methodenkapitel gefunden.",
                   <<doc.sections["methode"].title>>)>>
    ELSE <<Finding("METH-019", "Methode", "error", "Kein Methodenkapitel erkannt.", <<>>)>>

KEYWORDS ==
    <<<<"stichprobe">>, <<"sample">>, <<"teilnehmer">>, <<"participants">>,
      <<"daten">>, <<"datenerhebung">>, <<"fragebogen">>, <<"interview">>, <<"beobachtung">>,
      <<"analyse">>, <<"auswertung">>, <<"statistik">>, <<"verfahren">>, <<"methode">>,
      <<"operationalisierung">>, <<"hypothese">>, <<"messung">>, <<"instrument">>,
      <<"validität">>, <<"reliabilität">>>>

MinWords == 300

MinHits == 3

MethodDetail(wc, hits) ==
    IF wc < MinWords /\ Len(hits) < MinHits
    THEN <<Finding("METH-020", "Methode", "warn",
                   "Methodenteil wirkt sehr kurz und wenig detailliert (heuristisch).",
                   <<wc, hits>>)>>
    ELSE IF wc < MinWords
    THEN <<Finding("METH-020", "Methode", "warn", "Methodenteil wirkt eher kurz (heuristisch).",
                   <<wc, Len(hits)>>)>>
    ELSE IF Len(hits) < MinHits
    THEN <<Finding("METH-020", "Methode", "warn",
                   "Methodenteil enthält wenige typische Methodik-Signale (heuristisch).",
                   <<wc, hits>>)>>
    ELSE <<Finding("METH-020", "Methode", "info",
                   "Methodenteil wirkt ausreichend detailliert (heuristisch).",
                   <<wc, Len(hits)>>)>>

MethodDetailSufficientRule(doc, ai) ==
    IF "methode" \notin DOMAIN doc.sections
    THEN <<Finding("METH-020", "Methode", "warn",
                   "Methodenkapitel nicht erkannt - Detail-Check nicht möglich.", <<>>)>>
    ELSE MethodDetail(doc.sections["methode"].word_count,
                      Hits(KEYWORDS, Lower(doc.sections["methode"].text)))

INTERPRETATION_CUES ==
    <<<<"bedeutet">>, <<"impliziert">>, <<"daraus", " ", "folgt">>, <<"somit">>, <<"folglich">>,
      <<"interpretiert">>, <<"interpretation">>, <<"diskutieren">>, <<"diskussion">>,
      <<"limitation">>, <<"einschränkung">>, <<"kritisch">>,
      <<"verglichen">>, <<"vergleich">>, <<"literatur">>, <<"studien", " ", "zeigen">>>>

Separation(res_hits, disc_hits) ==
    IF Len(res_hits) >= 4 /\ Len(disc_hits) >= 2
    THEN <<Finding("RES-025", "Ergebnisse", "warn",
                   "Ergebnisteil enthält viele interpretierende Formulierungen - Trennung zu Diskussion evtl. unsauber (heuristisch).",
                   <<res_hits, Len(disc_hits)>>)>>
    ELSE <<Finding("RES-025", "Ergebnisse", "info",
                   "Trennung Ergebnis/Diskussion wirkt ok (heuristisch).",
                   <<Len(res_hits), Len(disc_hits)>>)>>

ResultsDiscussionSeparationRule(doc, ai) ==
    IF "ergebnisse" \notin DOMAIN doc.sections \/ "diskussion" \notin DOMAIN doc.sections
    THEN <<Finding("RES-025", "Ergebnisse", "warn",
                   "Ergebnisse oder Diskussion nicht erkannt - Trennungs-Check nicht möglich.",
                   <<>>)>>
    ELSE Separation(Hits(INTERPRETATION_CUES, Lower(doc.sections["ergebnisse"].text)),
                    Hits(INTERPRETATION_CUES, Lower(doc.sections["diskussion"].text)))

(***************************************************************************)
(* toc_lists_rules.py                                                       *)
(***************************************************************************)
\* _norm: NFKC, no-break spaces replaced, blanks collapsed, stripped, lower-cased
Norm(s) == Lower(Strip(CollapseBlanks(ReplaceNbsp(Nfkc(s)))))

\* _find_heading_like_line: the index of the first paragraph whose _norm is
\* one of the variants, None when there is none
FindHeadingLikeLine(ps, variants) ==
    LET found == {i \in 0..(Len(ps) - 1) : \E v \in 1..Len(variants) : Norm(ps[i + 1]) = Norm(variants[v])}
    IN  IF found = {} THEN None
        ELSE Some(CHOOSE i \in found : \A j \in found : i <= j)

TOC_TITLES ==
    <<<<"inhaltsverzeichnis">>, <<"table", " ", "of", " ", "contents">>, <<"contents">>>>

\* window = doc.paragraphs[idx + 1: idx + 40]
TocRuleWindow == 40

\* sum(1 for p in window if _looks_like_toc_line(p))
TocLikeAfter(ps, i) ==
    Cardinality({j \in (i + 1)..(Min2(Len(ps), i + TocRuleWindow) - 1) : LooksLikeTocLine(ps[j + 1])})

TocLikeMin == 3

TocFound(i, toc_like) ==
    IF toc_like >= TocLikeMin
    THEN <<Finding("STRUCT-015", "Struktur", "info", "Inhaltsverzeichnis erkannt.",
                   <<i, toc_like>>)>>
    ELSE <<Finding("STRUCT-015", "Struktur", "warn",
                   "Inhaltsverzeichnis-Überschrift gefunden, aber Inhalt wirkt unklar (heuristisch).",
                   <<i, toc_like>>)>>

TableOfContentsExistsRule(doc, ai) ==
    IF FindHeadingLikeLine(doc.paragraphs, TOC_TITLES) = None
    THEN <<Finding("STRUCT-015", "Struktur", "error", "Kein Inhaltsverzeichnis erkannt.", <<>>)>>
    ELSE TocFound(FindHeadingLikeLine(doc.paragraphs, TOC_TITLES)[1],
                  TocLikeAfter(doc.paragraphs, FindHeadingLikeLine(doc.paragraphs, TOC_TITLES)[1]))

FIG_TITLES ==
    <<<<"abbildungsverzeichnis">>, <<"verzeichnis", " ", "der", " ", "abbildungen">>,
      <<"list", " ", "of", " ", "figures">>, <<"figures">>>>

FiguresListed(idx_opt, n) ==
    IF idx_opt = None
    THEN <<Finding("FORM-039", "Formales", "error",
                   "Abbildungsverzeichnis fehlt (Pflicht, da Abbildungen vorhanden sind).", <<n>>)>>
    ELSE <<Finding("FORM-039", "Formales", "info", "Abbildungsverzeichnis erkannt.",
                   <<idx_opt[1], n>>)>>

ListOfFiguresExistsRule(doc, ai) ==
    IF Cardinality(doc.figure_refs) = 0
    THEN <<Finding("FORM-039", "Formales", "info",
                   "Keine Abbildungs-Referenzen erkannt - Abbildungsverzeichnis nicht erforderlich (heuristisch).",
                   <<>>)>>
    ELSE FiguresListed(FindHeadingLikeLine(doc.paragraphs, FIG_TITLES), Cardinality(doc.figure_refs))

TAB_TITLES ==
    <<<<"tabellenverzeichnis">>, <<"verzeichnis", " ", "der", " ", "tabellen">>,
      <<"list", " ", "of", " ", "tables">>, <<"tables">>>>

TablesListed(idx_opt, n) ==
    IF idx_opt = None
    THEN <<Finding("FORM-040", "Formales", "error",
                   "Tabellenverzeichnis fehlt (Pflicht, da Tabellen vorhanden sind).", <<n>>)>>
    ELSE <<Finding("FORM-040", "Formales", "info", "Tabellenverzeichnis erkannt.",
                   <<idx_opt[1], n>>)>>

ListOfTablesExistsRule(doc, ai) ==
    IF doc.tables_count <= 0
    THEN <<Finding("FORM-040", "Formales", "info",
                   "Keine Tabellen erkannt - Tabellenverzeichnis nicht erforderlich.", <<>>)>>
    ELSE TablesListed(FindHeadingLikeLine(doc.paragraphs, TAB_TITLES), doc.tables_count)

(***************************************************************************)
(* numbering_rules.py                                                       *)
(***************************************************************************)
\* s.rstrip(".")
RECURSIVE RStripDots(_)
RStripDots(s) ==
    IF s # <<>> /\ s[Len(s)] = "." THEN RStripDots(SubSeq(s, 1, Len(s) - 1)) ELSE s

\* _parse_num: the tuple of ints of "1.2", None when the string is no such number
ParseNum(num_str) ==
    IF Strip(num_str) = <<>> THEN None
    ELSE IF NumberEnd(Strip(num_str), 1) # Len(Strip(num_str)) THEN None
    ELSE Some([k \in 1..Len(SplitDots(Strip(num_str))) |->
                  IntOf(SplitDots(Strip(num_str))[k])])

\* re.match(r"^\s*(\d+(?:\.\d+)*)(?:\.)?\s+", txt): group(1), "" when no match
LeadingNumberOf(txt) ==
    LET e == NumberEnd(txt, 1)
        d == IF e + 1 <= Len(txt) /\ txt[e + 1] = "." THEN e + 1 ELSE e
    IN  IF e >= 1 /\ SkipBlanks(txt, d + 1) > d + 1 THEN SubSeq(txt, 1, e)
        ELSE IF e >= 1 /\ d > e /\ SkipBlanks(txt, e + 1) > e + 1 THEN SubSeq(txt, 1, e)
        ELSE <<>>

\* _get_heading_number_str
HeadingNumberStr(h) ==
    IF Strip(h.number) # <<>> THEN RStripDots(Strip(h.number))
    ELSE LeadingNumberOf(Strip(h.text))

HeadingNum(h) == ParseNum(HeadingNumberStr(h))

IsLevel1(h) == h.level = 1

IsLevel2(h) == h.level = 2

FRONTMATTER_OK ==
    {<<"kurzfassung">>, <<"abstract">>, <<"danksagung">>, <<"vorwort">>,
     <<"abkürzungsverzeichnis">>, <<"abkuerzungsverzeichnis">>, <<"abkürzungen">>,
     <<"abkuerzungen">>, <<"inhaltsverzeichnis">>, <<"abbildungsverzeichnis">>,
     <<"tabellenverzeichnis">>, <<"verzeichnis", " ", "der", " ", "abbildungen">>,
     <<"verzeichnis", " ", "der", " ", "tabellen">>}

IsFrontmatterHeading(h) == Lower(Strip(h.text)) \in FRONTMATTER_OK

\* _find_first_chapter1_idx: the 0-based index of the first level-1 heading
\* numbered 1, None when there is none
IsChapter1(h) == IsLevel1(h) /\ HeadingNum(h) # None /\ HeadingNum(h)[1][1] = 1

FindFirstChapter1Idx(hs) ==
    IF \A i \in 1..Len(hs) : ~IsChapter1(hs[i]) THEN None
    ELSE Some((CHOOSE i \in 1..Len(hs) :
                  IsChapter1(hs[i]) /\ \A j \in 1..(i - 1) : ~IsChapter1(hs[j])) - 1)

IllegalFront(front) ==
    SelectSeq(front, LAMBDA h : IsLevel1(h) /\ HeadingNum(h) = None /\ ~IsFrontmatterHeading(h))

UnnumberedBody(hs_body) ==
    SelectSeq(hs_body, LAMBDA h : IsLevel1(h) /\ HeadingNum(h) = None)

\* examples: the stripped texts of the first 8 headings
Examples(hs) == [k \in 1..Min2(Len(hs), 8) |-> Strip(hs[k].text)]

MustBeNumbered(front, hs_body) ==
    IF IllegalFront(front) # <<>>
    THEN <<Finding("FORM-041a", "Formales", "warn",
                   "Unnummerierte Überschriften im Frontmatter gefunden (vor Kapitel 1).",
                   Examples(IllegalFront(front)))>>
    ELSE IF UnnumberedBody(hs_body) # <<>>
    THEN <<Finding("FORM-041a", "Formales", "error",
                   "Einige Hauptüberschriften sind nicht nummeriert (Pflicht).",
                   Examples(UnnumberedBody(hs_body)))>>
    ELSE <<Finding("FORM-041a", "Formales", "info",
                   "Nummerierte Hauptüberschriften erkannt (Pflicht erfüllt).", <<>>)>>

HeadingsMustBeNumberedRule(doc, ai) ==
    IF doc.headings = <<>>
    THEN <<Finding("FORM-041a", "Formales", "error",
                   "Keine Überschriften erkannt - kann Nummerierung nicht prüfen.", <<>>)>>
    ELSE IF FindFirstChapter1Idx(doc.headings) = None
    THEN <<Finding("FORM-041a", "Formales", "error",
                   "Kapitel 1 (erste nummerierte Hauptüberschrift) nicht erkannt - kann Pflicht-Nummerierung nicht sauber prüfen.",
                   <<>>)>>
    ELSE MustBeNumbered(
            SubSeq(doc.headings, 1, FindFirstChapter1Idx(doc.headings)[1]),
            SubSeq(doc.headings, FindFirstChapter1Idx(doc.headings)[1] + 1, Len(doc.headings)))

\* tuple comparison a <= b
RECURSIVE TupleLeq(_, _)
TupleLeq(a, b) ==
    IF a = <<>> THEN TRUE
    ELSE IF b = <<>> THEN FALSE
    ELSE IF Head(a) # Head(b) THEN Head(a) < Head(b)
    ELSE TupleLeq(Tail(a), Tail(b))

\* sorted(items, key=lambda x: x[0]) for items (num, h): stable
RECURSIVE InsertByNum(_, _)
InsertByNum(sorted, x) ==
    IF sorted = <<>> THEN <<x>>
    ELSE IF TupleLeq(sorted[Len(sorted)].num, x.num) THEN Append(sorted, x)
    ELSE Append(InsertByNum(SubSeq(sorted, 1, Len(sorted) - 1), x), sorted[Len(sorted)])

RECURSIVE SortedByNum(_)
SortedByNum(items) ==
    IF items = <<>> THEN <<>>
    ELSE InsertByNum(SortedByNum(SubSeq(items, 1, Len(items) - 1)), items[Len(items)])

\* the numbered headings of one level, as (num, h) records
NumberedOfLevel(hs, level) ==
    LET kept == SelectSeq(hs, LAMBDA h : HeadingNum(h) # None /\ h.level = level)
    IN  [k \in 1..Len(kept) |-> [num |-> HeadingNum(kept[k])[1], h |-> kept[k]]]

\* the loop over the sorted items comparing component c of each number with
\* the expected value
RECURSIVE GapProblems(_, _, _, _)
GapProblems(items, i, c, expected) ==
    IF i > Len(items) THEN <<>>
    ELSE IF items[i].num[c] # expected
    THEN <<[level |-> c, expected |-> expected, found |-> items[i].num[c]]>>
             \o GapProblems(items, i + 1, c, items[i].num[c] + 1)
    ELSE GapProblems(items, i + 1, c, expected + 1)

\* the chapters of the level-2 items, in the order of first occurrence
RECURSIVE ChaptersOf(_, _)
ChaptersOf(items, seen) ==
    IF items = <<>> THEN <<>>
    ELSE IF Head(items).num[1] \in seen THEN ChaptersOf(Tail(items), seen)
    ELSE <<Head(items).num[1]>> \o ChaptersOf(Tail(items), seen \cup {Head(items).num[1]})

RECURSIVE Level2Problems(_, _, _)
Level2Problems(lvl2, chapters, i) ==
    IF i > Len(chapters) THEN <<>>
    ELSE GapProblems(SortedByNum(SelectSeq(lvl2, LAMBDA x : x.num[1] = chapters[i])), 1, 2, 1)
             \o Level2Problems(lvl2, chapters, i + 1)

NoGaps(problems) ==
    IF problems # <<>>
    THEN <<Finding("FORM-041b", "Formales", "error",
                   "Nummerierung der Überschriften hat Sprünge/Lücken (Pflicht).", problems)>>
    ELSE <<Finding("FORM-041b", "Formales", "info",
                   "Nummerierung der Überschriften wirkt lückenlos (Level 1 & 2).", <<>>)>>

NumberingGaps(lvl1, lvl2) ==
    IF lvl1 = <<>> /\ lvl2 = <<>>
    THEN <<Finding("FORM-041b", "Formales", "error",
                   "Keine nummerierten Überschriften gefunden - kann Nummerierungs-Sprünge nicht prüfen.",
                   <<>>)>>
    ELSE NoGaps(GapProblems(SortedByNum(lvl1), 1, 1, 1)
                    \o Level2Problems(lvl2, ChaptersOf(lvl2, {}), 1))

HeadingNumberingNoGapsRule(doc, ai) ==
    IF doc.headings = <<>>
    THEN <<Finding("FORM-041b", "Formales", "error",
                   "Keine Überschriften erkannt - kann Nummerierungs-Sprünge nicht prüfen.",
                   <<>>)>>
    ELSE NumberingGaps(NumberedOfLevel(doc.headings, 1),
                       SelectSeq(NumberedOfLevel(doc.headings, 2), LAMBDA x : Len(x.num) >= 2))

(***************************************************************************)
(* docx_extractor.py: references and citation signals.                      *)
(***************************************************************************)
\* [p for p in paragraphs if p]
NonEmptyParas(ps) == SelectSeq(ps, LAMBDA p : p # <<>>)

\* the match of \b<word>\s+\d+\b that starts at atom i of text, whose blanks
\* end before b and whose digits end at e, title-cased: None when there is none
RefMatch(text, i, b, e, word, title) ==
    IF /\ WordAt(Lower(text), i, word)
       /\ b > i + 1
       /\ e >= b
       /\ (e = Len(text) \/ ~IsWordChar(text[e + 1]))
    THEN Some(<<title>> \o SubSeq(text, i + 1, e))
    ELSE None

RefMatchAt(text, i, word, title) ==
    RefMatch(text, i, SkipBlanks(text, i + 1), DigitsEnd(text, SkipBlanks(text, i + 1)),
             word, title)

\* sorted(set(m.title() for m in re.findall(r"\b<word>\s+\d+\b", text, re.IGNORECASE))):
\* the set of the matches
RefsOf(text, word, title) ==
    {RefMatchAt(text, i, word, title)[1] :
        i \in {k \in 1..Len(text) : RefMatchAt(text, k, word, title) # None}}

\* the match of \[([^\]]*?\d[^\]]*?)\] that ends at the "]" at close, prev being
\* the "]" before it (0: none): a match holds no "]", so it starts at the first
\* "[" after prev and needs a digit behind that; None when there is none
BracketBlockAt(text, prev, close) ==
    IF /\ \E i \in (prev + 1)..(close - 1) : text[i] = "["
       /\ \E k \in (prev + 1)..(close - 1) :
              /\ text[k] \in Digits
              /\ \E i \in (prev + 1)..(k - 1) : text[i] = "["
    THEN Some(SubSeq(text,
                     1 + CHOOSE i \in (prev + 1)..(close - 1) :
                             text[i] = "[" /\ \A j \in (prev + 1)..(i - 1) : text[j] # "[",
                     close - 1))
    ELSE None

BracketBlocksOf(text, closes) ==
    [k \in 1..Len(closes) |->
        BracketBlockAt(text, IF k = 1 THEN 0 ELSE closes[k - 1], closes[k])]

\* re.findall(r"\[([^\]]*?\d[^\]]*?)\]", text): the groups, in the order of the text
BracketBlocks(text) ==
    LET at == SelectSeq(BracketBlocksOf(text, SelectSeq([i \in 1..Len(text) |-> i],
                                                        LAMBDA i : text[i] = "]")),
                        LAMBDA m : m # None)
    IN  [k \in 1..Len(at) |-> at[k][1]]

\* last index of the run of [A-Za-zÄÖÜäöüß\-] that starts at i (i - 1: none)
RECURSIVE NameEnd(_, _)
NameEnd(s, i) ==
    IF i <= Len(s) /\ (IsWord(s[i]) \/ s[i] = "-") THEN NameEnd(s, i + 1) ELSE i - 1

\* the match of \(([A-ZÄÖÜ][A-Za-zÄÖÜäöüß\-]+),\s*(\d{4})\) that starts at atom i,
\* whose name ends at e and whose year starts at b: the groups, None when
\* there is no match
AuthorYearMatch(text, i, e, b) ==
    IF /\ text[i] = "("
       /\ i + 1 <= Len(text)
       /\ text[i + 1] \in DOMAIN CapWords
       /\ TextLen(SubSeq(text, i + 1, e)) >= 2
       /\ e + 1 <= Len(text)
       /\ text[e + 1] = ","
       /\ DigitsEnd(text, b) = b + 3
       /\ b + 4 <= Len(text)
       /\ text[b + 4] = ")"
    THEN Some(<<SubSeq(text, i + 1, e), SubSeq(text, b, b + 3)>>)
    ELSE None

AuthorYearAt(text, i) ==
    AuthorYearMatch(text, i, NameEnd(text, i + 1), SkipBlanks(text, NameEnd(text, i + 1) + 2))

\* the matches of the author-year pattern in the order of the text; the key
\* f"{name}-{year}" is the pair <<name, year>>
AuthorYears(text) ==
    LET at == SelectSeq([i \in 1..Len(text) |-> AuthorYearAt(text, i)], LAMBDA m : m # None)
    IN  [k \in 1..Len(at) |-> at[k][1]]

\* re.findall(r"\bet\s+al\.", text, flags=re.IGNORECASE): the number of matches
EtAlAt(l, i, b) ==
    /\ l[i] = "et"
    /\ (i = 1 \/ ~IsWordChar(l[i - 1]))
    /\ b > i + 1
    /\ b + 1 <= Len(l)
    /\ l[b] = "al"
    /\ l[b + 1] = "."

EtAlCount(text) ==
    Cardinality({i \in 1..Len(text) : EtAlAt(Lower(text), i, SkipBlanks(Lower(text), i + 1))})

\* _extract_references: (figure_refs, table_refs)
ExtractReferences(ps) ==
    <<RefsOf(JoinLines(NonEmptyParas(ps)), "abbildung", "Abbildung"),
      RefsOf(JoinLines(NonEmptyParas(ps)), "tabelle", "Tabelle")>>

\* _extract_citation_signals: every block holds a digit, so every block counts
ExtractCitationSignalsEveryBracket(ps) ==
    [numeric_count |-> Len(SelectSeq(JoinLines(NonEmptyParas(ps)), LAMBDA a : a = "]")),
     author_year_count |-> Len(AuthorYears(JoinLines(NonEmptyParas(ps)))),
     etal_count |-> EtAlCount(JoinLines(NonEmptyParas(ps)))]
ExtractCitationSignals(ps) ==
    [numeric_count |-> Len(BracketBlocks(JoinLines(NonEmptyParas(ps)))),
     author_year_count |-> Len(AuthorYears(JoinLines(NonEmptyParas(ps)))),
     etal_count |-> EtAlCount(JoinLines(NonEmptyParas(ps)))]

\* extract_docx: the DocumentModel of the extracted paragraphs, headings and
\* sections; tables_count is len(doc.tables) of the file
DocumentModel(ps, hs, secs, tables_count) ==
    [paragraphs |-> ps,
     headings |-> hs,
     sections |-> secs,
     word_count_total |-> WordCount(JoinLines(NonEmptyParas(ps))),
     tables_count |-> tables_count,
     figure_refs |-> ExtractReferences(ps)[1],
     table_refs |-> ExtractReferences(ps)[2],
     citations |-> ExtractCitationSignals(ps)]

(***************************************************************************)
(* literature_rules.py                                                      *)
(***************************************************************************)
\* s.split(sep)
RECURSIVE SplitAt(_, _)
SplitAt(s, sep) ==
    IF \A i \in 1..Len(s) : s[i] # sep THEN <<s>>
    ELSE LET first == CHOOSE i \in 1..Len(s) :
                          s[i] = sep /\ \A j \in 1..(i - 1) : s[j] # sep
         IN  <<SubSeq(s, 1, first - 1)>> \o SplitAt(SubSeq(s, first + 1, Len(s)), sep)

\* the stripped parts that are not empty: [p.strip() for p in parts if p.strip()]
StrippedParts(parts) ==
    SelectSeq([k \in 1..Len(parts) |-> Strip(parts[k])], LAMBDA p : p # <<>>)

\* re.findall(r"\d+", p) from atom i on
RECURSIVE DigitRunsFrom(_, _)
DigitRunsFrom(p, i) ==
    IF i > Len(p) THEN <<>>
    ELSE IF p[i] \in Digits
    THEN <<SubSeq(p, i, DigitsEnd(p, i))>> \o DigitRunsFrom(p, DigitsEnd(p, i) + 1)
    ELSE DigitRunsFrom(p, i + 1)

DigitRuns(p) == DigitRunsFrom(p, 1)

\* the list without its repetitions, in the order of the first occurrences
Unique(xs) ==
    LET first == SelectSeq([i \in 1..Len(xs) |-> <<i, xs[i]>>],
                           LAMBDA p : \A j \in 1..(p[1] - 1) : xs[j] # p[2])
    IN  [k \in 1..Len(first) |-> first[k][2]]

\* the block with everything but digits, commas, hyphens and blanks replaced by
\* a space, the blanks collapsed, stripped
CleanBlock(block) ==
    Strip(CollapseBlanks([i \in 1..Len(block) |->
        IF block[i] \in Digits \cup {",", "-"} \cup Blanks THEN block[i] ELSE " "]))

RangeLimit == 200

\* the numbers of "a-b"
RangeNumbers(p, a, b) ==
    IF IsDigitText(a) /\ IsDigitText(b)
    THEN IF IntOf(a) <= IntOf(b) /\ IntOf(b) - IntOf(a) <= RangeLimit
         THEN [k \in 1..(IntOf(b) - IntOf(a) + 1) |-> Str(IntOf(a) + k - 1)]
         ELSE <<a, b>>
    ELSE DigitRuns(p)

\* the numbers of one part of the block
PartNumbers(p) ==
    IF \E i \in 1..Len(p) : p[i] = "-"
    THEN RangeNumbers(p, Strip(SplitAt(p, "-")[1]),
                      Strip(SubSeq(p, Len(SplitAt(p, "-")[1]) + 2, Len(p))))
    ELSE DigitRuns(p)

RECURSIVE PartsNumbers(_)
PartsNumbers(parts) ==
    IF parts = <<>> THEN <<>> ELSE PartNumbers(Head(parts)) \o PartsNumbers(Tail(parts))

\* _expand_numeric_block
ExpandNumericBlock(block) ==
    Unique(PartsNumbers(StrippedParts(SplitAt(CleanBlock(block), ","))))

RECURSIVE ExpandBlocks(_)
ExpandBlocks(blocks) ==
    IF blocks = <<>> THEN <<>>
    ELSE ExpandNumericBlock(Head(blocks)) \o ExpandBlocks(Tail(blocks))

\* _extract_citations_from_text: (numeric, author_year)
ExtractCitationsFromText(text) ==
    <<ExpandBlocks(BracketBlocks(text)), AuthorYears(text)>>

\* [ln.strip() for ln in text.splitlines() if ln.strip()]
Lines(text) == StrippedParts(SplitAt(text, "\n"))

\* REF_ITEM_LINE_RE.search(ln): \[\s*\d+\s*\] followed by a blank, for the
\* digits b..e and the bracket at c
RefItemBracket(ln, b, e, c) ==
    /\ ln[1] = "["
    /\ e >= b
    /\ c + 1 <= Len(ln)
    /\ ln[c] = "]"
    /\ ln[c + 1] \in Blanks

\* \d+\s*[\.\)] followed by a blank, for the digits 1..e and the mark at c
RefItemNumber(ln, e, c) ==
    /\ e >= 1
    /\ c + 1 <= Len(ln)
    /\ ln[c] \in {".", ")"}
    /\ ln[c + 1] \in Blanks

IsRefItemLine(ln) ==
    /\ ln # <<>>
    /\ \/ RefItemBracket(ln, SkipBlanks(ln, 2), DigitsEnd(ln, SkipBlanks(ln, 2)),
                         SkipBlanks(ln, DigitsEnd(ln, SkipBlanks(ln, 2)) + 1))
       \/ RefItemNumber(ln, DigitsEnd(ln, 1), SkipBlanks(ln, DigitsEnd(ln, 1) + 1))

RefBlockMin == 3

\* _detect_reference_block(text, min_items=3): (found, count)
DetectReferenceBlock(text) ==
    <<Len(SelectSeq(Lines(text), IsRefItemLine)) >= RefBlockMin,
      Len(SelectSeq(Lines(text), IsRefItemLine))>>

\* sec and sec.text and sec.text.strip()
HasLiteratureSection(doc) ==
    "literatur" \in DOMAIN doc.sections /\ Strip(doc.sections["literatur"].text) # <<>>

\* _get_literature_text: (literature_text, source_label)
GetLiteratureText(doc) ==
    IF HasLiteratureSection(doc) THEN <<Some(doc.sections["literatur"].text), "section">>
    ELSE IF DetectReferenceBlock(JoinLines(doc.paragraphs))[1]
    THEN <<Some(JoinLines(doc.paragraphs)), "fallback">>
    ELSE <<None, "none">>

\* re.match(r"^\[\s*(\d+)\s*\]", ln), and else re.match(r"^\s*(\d+)\s*[\.\)]\s+", ln):
\* the number of the line, None when neither matches
BracketNumber(ln, b, e, c) ==
    IF ln[1] = "[" /\ e >= b /\ c <= Len(ln) /\ ln[c] = "]"
    THEN Some(SubSeq(ln, b, e))
    ELSE IF RefItemNumber(ln, DigitsEnd(ln, 1), SkipBlanks(ln, DigitsEnd(ln, 1) + 1))
    THEN Some(SubSeq(ln, 1, DigitsEnd(ln, 1)))
    ELSE None

NumericRefOf(ln) ==
    BracketNumber(ln, SkipBlanks(ln, 2), DigitsEnd(ln, SkipBlanks(ln, 2)),
                  SkipBlanks(ln, DigitsEnd(ln, SkipBlanks(ln, 2)) + 1))

\* a match of \b(19|20)\d{2}\b at atom i
YearAt(ln, i) ==
    /\ i + 3 <= Len(ln)
    /\ DigitsEnd(ln, i) = i + 3
    /\ <<ln[i], ln[i + 1]>> \in {<<"1", "9">>, <<"2", "0">>}
    /\ (i = 1 \/ ~IsWordChar(ln[i - 1]))
    /\ (i + 3 = Len(ln) \/ ~IsWordChar(ln[i + 4]))

\* re.search(r"\b(19|20)\d{2}\b", ln): the first match, None when there is none
YearOf(ln) ==
    IF \A i \in 1..Len(ln) : ~YearAt(ln, i) THEN None
    ELSE LET first == CHOOSE i \in 1..Len(ln) :
                          YearAt(ln, i) /\ \A j \in 1..(i - 1) : ~YearAt(ln, j)
         IN  Some(SubSeq(ln, first, first + 3))

\* \b after atom k: a letter on one side and none on the other
BoundaryAfter(ln, k) == IsWord(ln[k]) # (k + 1 <= Len(ln) /\ IsWordChar(ln[k + 1]))

\* the ends of the matches of ^([A-ZÄÖÜ][A-Za-zÄÖÜäöüß\-]+)\b within the run 1..e
SurnameEnds(ln, e) ==
    {k \in 1..e : BoundaryAfter(ln, k) /\ TextLen(SubSeq(ln, 1, k)) >= 2}

\* re.match(r"^([A-ZÄÖÜ][A-Za-zÄÖÜäöüß\-]+)\b", ln): the longest match
SurnameOf(ln) ==
    IF ln = <<>> \/ ln[1] \notin DOMAIN CapWords \/ SurnameEnds(ln, NameEnd(ln, 1)) = {}
    THEN None
    ELSE Some(SubSeq(ln, 1, CHOOSE k \in SurnameEnds(ln, NameEnd(ln, 1)) :
                                \A j \in SurnameEnds(ln, NameEnd(ln, 1)) : j <= k))

\* _extract_reference_candidates_from_literature: (numeric_refs, author_year_refs),
\* as the sets the rules make of them
ExtractReferenceCandidates(text) ==
    <<{NumericRefOf(ln)[1] : ln \in {Lines(text)[k] : k \in {j \in 1..Len(Lines(text)) :
                                        NumericRefOf(Lines(text)[j]) # None}}},
      {<<SurnameOf(ln)[1], YearOf(ln)[1]>> :
          ln \in {Lines(text)[k] : k \in {j \in 1..Len(Lines(text)) :
                      YearOf(Lines(text)[j]) # None /\ SurnameOf(Lines(text)[j]) # None}}}>>

Range(f) == {f[x] : x \in DOMAIN f}

LiteratureFallback(found, count) ==
    IF found
    THEN <<Finding("LIT-032", "Literatur", "warn",
                   "Literaturverzeichnis erkannt, aber nicht als Kapitelüberschrift (Heading) segmentiert.",
                   <<count>>)>>
    ELSE <<Finding("LIT-032", "Literatur", "error", "Kein Literaturverzeichnis erkannt.", <<>>)>>

\* a mutant of LiteratureExistsRule that never looks at the section literatur
LiteratureExistsRuleFallbackOnly(doc, ai) ==
    LiteratureFallback(DetectReferenceBlock(JoinLines(doc.paragraphs))[1],
                       DetectReferenceBlock(JoinLines(doc.paragraphs))[2])
LiteratureExistsRule(doc, ai) ==
    IF HasLiteratureSection(doc)
    THEN <<Finding("LIT-032", "Literatur", "info", "Literaturverzeichnis erkannt.",
                   <<doc.sections["literatur"].title, doc.sections["literatur"].word_count>>)>>
    ELSE LiteratureFallback(DetectReferenceBlock(JoinLines(doc.paragraphs))[1],
                            DetectReferenceBlock(JoinLines(doc.paragraphs))[2])

\* the findings of LIT-033 for the sets of citations and references
CitationsListed(source, cited_num, cited_ay, ref_num, ref_ay) ==
    IF cited_num = {} /\ cited_ay = {}
    THEN <<Finding("LIT-033", "Literatur", "info",
                   "Keine erkennbaren Zitate im Text gefunden (heuristisch).", <<>>)>>
    ELSE IF cited_num \ ref_num # {} \/ cited_ay \ ref_ay # {}
    THEN IF source = "section"
         THEN <<Finding("LIT-033", "Literatur", "error",
                        "Einige Zitate wurden nicht im Literaturverzeichnis gefunden (heuristisch).",
                        <<cited_num \ ref_num, cited_ay \ ref_ay>>)>>
         ELSE <<Finding("LIT-033", "Literatur", "warn",
                        "Zitate vs. Literatur: mögliche Lücken erkannt (Literatur nicht als Kapitel segmentiert; heuristisch).",
                        <<cited_num \ ref_num, cited_ay \ ref_ay>>)>>
    ELSE <<Finding("LIT-033", "Literatur", "info",
                   "Erkannte Zitate scheinen im Literaturverzeichnis enthalten zu sein (heuristisch).",
                   <<source, Cardinality(cited_num), Cardinality(cited_ay)>>)>>

CitationsAgainst(lit, cites, refs) ==
    CitationsListed(lit[2], Range(cites[1]), Range(cites[2]), refs[1], refs[2])

AllCitationsInReferenceListRule(doc, ai) ==
    IF GetLiteratureText(doc)[1] = None
    THEN <<Finding("LIT-033", "Literatur", "error",
                   "Literaturverzeichnis fehlt - kann nicht prüfen ob alle Zitate enthalten sind.",
                   <<>>)>>
    ELSE CitationsAgainst(GetLiteratureText(doc),
                          ExtractCitationsFromText(JoinLines(doc.paragraphs)),
                          ExtractReferenceCandidates(GetLiteratureText(doc)[1][1]))

\* the findings of LIT-034 for the sets of citations and references
ReferencesCited(source, cited_num, cited_ay, ref_num, ref_ay) ==
    IF ref_num = {} /\ ref_ay = {}
    THEN <<Finding("LIT-034", "Literatur", "info",
                   "Konnte keine strukturierte Referenzliste erkennen (heuristisch).", <<>>)>>
    ELSE IF ref_num \ cited_num # {} \/ ref_ay \ cited_ay # {}
    THEN IF source = "section"
         THEN <<Finding("LIT-034", "Literatur", "warn",
                        "Möglicherweise unzitierte Einträge im Literaturverzeichnis (heuristisch).",
                        <<ref_num \ cited_num, ref_ay \ cited_ay>>)>>
         ELSE <<Finding("LIT-034", "Literatur", "info",
                        "Möglicherweise unzitierte Einträge (Literatur nicht als Kapitel segmentiert; heuristisch).",
                        <<ref_num \ cited_num, ref_ay \ cited_ay>>)>>
    ELSE <<Finding("LIT-034", "Literatur", "info",
                   "Keine offensichtlichen unzitierten Einträge erkannt (heuristisch).",
                   <<source, Cardinality(ref_num), Cardinality(ref_ay)>>)>>

ReferencesAgainst(lit, cites, refs) ==
    ReferencesCited(lit[2], Range(cites[1]), Range(cites[2]), refs[1], refs[2])

NoUncitedReferencesRuleStrict(doc, ai) ==
    IF GetLiteratureText(doc)[1] = None
    THEN <<Finding("LIT-034", "Literatur", "error",
                   "Literaturverzeichnis fehlt - kann nicht prüfen ob unzitierte Quellen enthalten sind.",
                   <<>>)>>
    ELSE ReferencesAgainst(GetLiteratureText(doc),
                           ExtractCitationsFromText(JoinLines(doc.paragraphs)),
                           ExtractReferenceCandidates(GetLiteratureText(doc)[1][1]))
NoUncitedReferencesRule(doc, ai) ==
    IF GetLiteratureText(doc)[1] = None
    THEN <<Finding("LIT-034", "Literatur", "warn",
                   "Literaturverzeichnis fehlt - kann nicht prüfen ob unzitierte Quellen enthalten sind.",
                   <<>>)>>
    ELSE ReferencesAgainst(GetLiteratureText(doc),
                           ExtractCitationsFromText(JoinLines(doc.paragraphs)),
                           ExtractReferenceCandidates(GetLiteratureText(doc)[1][1]))

StyleConsistent(num_count, ay_count) ==
    IF num_count = 0 /\ ay_count = 0
    THEN <<Finding("LIT-035", "Literatur", "info",
                   "Keine erkennbaren Zitatmuster gefunden (heuristisch).", <<>>)>>
    ELSE IF num_count > 0 /\ ay_count > 0
    THEN <<Finding("LIT-035", "Literatur", "warn",
                   "Mischung aus numerischen und Autor-Jahr Zitaten erkannt - Zitierstil evtl. inkonsistent.",
                   <<num_count, ay_count>>)>>
    ELSE <<Finding("LIT-035", "Literatur", "info", "Zitierstil wirkt konsistent (heuristisch): ",
                   <<IF num_count > 0 THEN "numerisch ([n])" ELSE "Autor-Jahr (Harvard/APA)">>)>>

StyleOfCitations(cites) ==
    StyleConsistent(Cardinality(Range(cites[1])), Cardinality(Range(cites[2])))

CitationStyleConsistentRule(doc, ai) ==
    StyleOfCitations(ExtractCitationsFromText(JoinLines(doc.paragraphs)))

(***************************************************************************)
(* research_question_rules.py                                               *)
(***************************************************************************)
STOPWORDS_DE ==
    {"der", "die", "das", "ein", "eine", "einer", "eines", "einem", "einen",
     "und", "oder", "aber", "sowie", "als", "wie", "wenn", "dann", "dass", "daß",
     "ist", "sind", "war", "waren", "wird", "werden", "wurde",
     "in", "im", "auf", "an", "am", "aus", "bei", "mit", "ohne", "für", "von", "zu", "zum", "zur",
     "des", "den", "dem", "durch", "über", "unter", "zwischen", "gegen", "um",
     "diese", "dieser", "dieses", "diesem", "diesen",
     "arbeit", "bachelorarbeit", "studie", "untersuchung", "analyse",
     "frage", "forschungsfrage", "ziel", "zielsetzung"}

\* the phrase ph stands at atom i of s between \b and \b
PhraseAt(s, i, ph) ==
    /\ i + Len(ph) - 1 <= Len(s)
    /\ SubSeq(s, i, i + Len(ph) - 1) = ph
    /\ (i = 1 \/ ~IsWordChar(s[i - 1]))
    /\ (i + Len(ph) - 1 = Len(s) \/ ~IsWordChar(s[i + Len(ph)]))

\* the patterns of RQ_PATTERNS that are one word or one phrase
RQ_PATTERNS ==
    <<<<"forschungsfrage">>, <<"fragestellung">>,
      <<"ziel", " ", "dieser", " ", "arbeit">>, <<"zielsetzung">>,
      <<"diese", " ", "arbeit", " ", "untersucht">>,
      <<"diese", " ", "arbeit", " ", "analysiert">>,
      <<"diese", " ", "arbeit", " ", "geht", " ", "der", " ", "frage", " ", "nach">>,
      <<"folgende", " ", "frage">>>>

\* the last pattern, \bim rahmen dieser arbeit\b.*\bfrage\b: the phrase, and
\* later in the same line the word
RQ_PATTERN_RAHMEN == <<"im", " ", "rahmen", " ", "dieser", " ", "arbeit">>

RahmenFrage(l) ==
    \E i \in 1..Len(l) :
        /\ PhraseAt(l, i, RQ_PATTERN_RAHMEN)
        /\ \E j \in (i + Len(RQ_PATTERN_RAHMEN))..Len(l) :
              /\ WordAt(l, j, "frage")
              /\ \A k \in (i + Len(RQ_PATTERN_RAHMEN))..(j - 1) : l[k] # "\n"

\* any(re.search(p, text, flags=re.IGNORECASE) for p in RQ_PATTERNS), for the
\* lower-cased text l
MatchesRqPattern(l) ==
    \/ \E p \in 1..Len(RQ_PATTERNS) : ContainsPhrase(l, RQ_PATTERNS[p])
    \/ RahmenFrage(l)

\* _contains_research_question
ContainsResearchQuestion(text) == MatchesRqPattern(Lower(text))

\* NFKD without the combining marks, for a lower-case word
Unaccent(a) == IF a \in DOMAIN UnaccentWords THEN UnaccentWords[a] ELSE a

\* _normalize: lower-cased and stripped; NFKD without the combining marks (the
\* no-break space becomes a space); what is no letter, digit, hyphen or space
\* becomes a space; the blanks collapsed, stripped
NormalizeAtom(a) ==
    IF IsWord(a) THEN Unaccent(a)
    ELSE IF a \in Digits \cup {"-"} THEN a
    ELSE " "

NormalizeRq(s) ==
    Strip(CollapseBlanks([i \in 1..Len(Strip(Lower(s))) |-> NormalizeAtom(Strip(Lower(s))[i])]))

\* [a-zäöüß0-9\-]
IsTokenAtom(a) == IsWord(a) \/ a \in Digits \/ a = "-"

RECURSIVE TokenEnd(_, _)
TokenEnd(s, i) == IF i <= Len(s) /\ IsTokenAtom(s[i]) THEN TokenEnd(s, i + 1) ELSE i - 1

\* re.findall(r"[a-zäöüß0-9\-]{2,}", t): the maximal runs of at least two
\* characters, in the order of the text; a token is the sequence of its atoms
TokensOf(t) ==
    LET starts == SelectSeq([i \in 1..Len(t) |-> i],
                            LAMBDA i : /\ IsTokenAtom(t[i])
                                       /\ (i = 1 \/ ~IsTokenAtom(t[i - 1]))
                                       /\ TextLen(SubSeq(t, i, TokenEnd(t, i))) >= 2)
    IN  [k \in 1..Len(starts) |-> SubSeq(t, starts[k], TokenEnd(t, starts[k]))]

\* _tokenize
Tokenize(text) == TokensOf(NormalizeRq(text))

IsStopword(t) == Len(t) = 1 /\ t[1] \in STOPWORDS_DE

\* counts[tok]
CountOf(tokens, tok) == Cardinality({i \in 1..Len(tokens) : tokens[i] = tok})

\* 4 * score(tok): counts[tok] * 2 + min(len(tok), 12) / 4
Score4(tokens, tok) == 8 * CountOf(tokens, tok) + Min2(TextLen(tok), 12)

\* sorted(keys, key=score, reverse=True): stable, the larger score first
RECURSIVE InsertByScore(_, _, _)
InsertByScore(sorted, x, tokens) ==
    IF sorted = <<>> THEN <<x>>
    ELSE IF Score4(tokens, sorted[Len(sorted)]) >= Score4(tokens, x) THEN Append(sorted, x)
    ELSE Append(InsertByScore(SubSeq(sorted, 1, Len(sorted) - 1), x, tokens),
                sorted[Len(sorted)])

RECURSIVE RankedByScore(_, _)
RankedByScore(keys, tokens) ==
    IF keys = <<>> THEN <<>>
    ELSE InsertByScore(RankedByScore(SubSeq(keys, 1, Len(keys) - 1), tokens),
                       keys[Len(keys)], tokens)

MaxTerms == 8

Ranked(tokens) == RankedByScore(Unique(tokens), tokens)

\* _extract_candidate_terms(rq_text, max_terms=8)
ExtractCandidateTerms(rq_text) ==
    SubSeq(Ranked(SelectSeq(Tokenize(rq_text), LAMBDA t : ~IsStopword(t) /\ TextLen(t) >= 3)),
           1,
           Min2(MaxTerms,
                Len(Ranked(SelectSeq(Tokenize(rq_text),
                                     LAMBDA t : ~IsStopword(t) /\ TextLen(t) >= 3)))))

\* the characters of a token without its hyphens: t.replace("-", "")
RECURSIVE WithoutHyphens(_)
WithoutHyphens(t) ==
    IF t = <<>> THEN ""
    ELSE IF Head(t) = "-" THEN WithoutHyphens(Tail(t))
    ELSE Head(t) \o WithoutHyphens(Tail(t))

\* t.startswith(term), for tokens
TokenStartsWith(t, term) ==
    /\ term # <<>>
    /\ Len(term) <= Len(t)
    /\ SubSeq(t, 1, Len(term) - 1) = SubSeq(term, 1, Len(term) - 1)
    /\ \/ t[Len(term)] = term[Len(term)]
       \/ <<term[Len(term)], t[Len(term)]>> \in WordPrefixes

Abs(n) == IF n < 0 THEN 0 - n ELSE n

IsVariant(t, term) ==
    /\ t # term
    /\ \/ WithoutHyphens(t) = WithoutHyphens(term)
       \/ /\ TokenStartsWith(t, term) \/ TokenStartsWith(term, t)
          /\ Abs(TextLen(t) - TextLen(term)) <= 3

\* _find_variants: the set of the variants
FindVariants(text_tokens, term) == {t \in Range(text_tokens) : IsVariant(t, term)}

\* the first paragraph that holds a research question, None when there is none
FirstRqParagraph(ps) ==
    IF \A i \in 1..Len(ps) : ~ContainsResearchQuestion(ps[i]) THEN None
    ELSE Some(ps[CHOOSE i \in 1..Len(ps) :
                    /\ ContainsResearchQuestion(ps[i])
                    /\ \A j \in 1..(i - 1) : ~ContainsResearchQuestion(ps[j])])

\* an AIAnnotations object is the record of its research_question (None or a
\* text); ai is None or Some of such a record
HasAiQuestion(ai) == ai # None /\ ai[1].research_question # <<>>

\* the source of the research question: ai.research_question, else the first
\* matching paragraph, else None
RqSourceScanFirst(doc, ai) ==
    IF FirstRqParagraph(doc.paragraphs) # None THEN FirstRqParagraph(doc.paragraphs)
    ELSE IF HasAiQuestion(ai) THEN Some(ai[1].research_question)
    ELSE None
RqSource(doc, ai) ==
    IF HasAiQuestion(ai) THEN Some(ai[1].research_question)
    ELSE FirstRqParagraph(doc.paragraphs)

RqFound(first) ==
    IF first # None
    THEN <<Finding("RQ-001", "Fragestellung", "info",
                   "Hinweis auf Forschungsfrage/Zielsetzung gefunden.", first)>>
    ELSE <<Finding("RQ-001", "Fragestellung", "info",
                   "Hinweis auf Forschungsfrage/Zielsetzung gefunden.", <<>>)>>

ResearchQuestionExistsRule(doc, ai) ==
    IF ContainsResearchQuestion(JoinLines(doc.paragraphs))
    THEN RqFound(FirstRqParagraph(doc.paragraphs))
    ELSE <<Finding("RQ-001", "Fragestellung", "error",
                   "Keine explizite Forschungsfrage/Zielsetzung gefunden (heuristisch).", <<>>)>>

ResearchQuestionInIntroRule(doc, ai) ==
    IF "einleitung" \notin DOMAIN doc.sections
    THEN <<Finding("RQ-002", "Fragestellung", "warn",
                   "Einleitung nicht erkannt - Check 'RQ in Einleitung' kann nicht sauber geprüft werden.",
                   <<>>)>>
    ELSE IF ContainsResearchQuestion(doc.sections["einleitung"].text)
    THEN <<Finding("RQ-002", "Fragestellung", "info",
                   "Hinweis auf Forschungsfrage/Zielsetzung in der Einleitung gefunden (heuristisch).",
                   <<doc.sections["einleitung"].title>>)>>
    ELSE <<Finding("RQ-002", "Fragestellung", "warn",
                   "Kein Hinweis auf Forschungsfrage/Zielsetzung in der Einleitung gefunden (heuristisch).",
                   <<doc.sections["einleitung"].title>>)>>

\* variants_map: the terms that have variants, each with its variants
VariantsMap(tokens, terms) ==
    SelectSeq([k \in 1..Len(terms) |-> <<terms[k], FindVariants(tokens, terms[k])>>],
              LAMBDA kv : kv[2] # {})

TermsVariants(terms, variants_map) ==
    IF variants_map # <<>>
    THEN <<Finding("RQ-003", "Fragestellung", "warn",
                   "Mögliche inkonsistente Schreibweisen zentraler Begriffe gefunden (heuristisch).",
                   variants_map)>>
    ELSE <<Finding("RQ-003", "Fragestellung", "info",
                   "Zentrale Begriffe aus der Forschungsfrage erscheinen konsistent (heuristisch).",
                   terms)>>

TermsPresent(tokens, terms, missing) ==
    IF missing # <<>>
    THEN <<Finding("RQ-003", "Fragestellung", "warn",
                   "Einige zentrale Begriffe aus der Forschungsfrage tauchen im Text nicht auf: ",
                   <<missing, terms>>)>>
    ELSE TermsVariants(terms, VariantsMap(tokens, terms))

TermsConsistent(tokens, rq_source, terms) ==
    IF terms = <<>>
    THEN <<Finding("RQ-003", "Fragestellung", "warn",
                   "Konnte keine zentralen Begriffe aus der Forschungsfrage ableiten (heuristisch).",
                   <<rq_source>>)>>
    ELSE TermsPresent(tokens, terms, SelectSeq(terms, LAMBDA t : t \notin Range(tokens)))

KeyTermsOfSource(tokens, source) ==
    IF source = None \/ source[1] = <<>>
    THEN <<Finding("RQ-003", "Fragestellung", "warn",
                   "Keine Forschungsfrage/Ziel-Passage gefunden - zentrale Begriffe können nicht extrahiert werden.",
                   <<>>)>>
    ELSE TermsConsistent(tokens, source[1], ExtractCandidateTerms(source[1]))

ResearchKeyTermsConsistencyRule(doc, ai) ==
    KeyTermsOfSource(Tokenize(JoinLines(doc.paragraphs)), RqSource(doc, ai))

\* needed = max(2, int(len(terms) * 0.35))
Needed(terms) == Max2(2, (Len(terms) * 35) \div 100)

\* the tail RQ-004 and RQ-005 share: the terms of the source against the
\* tokens of the section
Referenced(id, where, terms, hits) ==
    IF Len(hits) >= Needed(terms)
    THEN <<Finding(id, "Fragestellung", "info",
                   IF where = "ergebnisse"
                   THEN "Rückbezug auf zentrale Begriffe der Forschungsfrage im Ergebnisteil gefunden (heuristisch)."
                   ELSE "Rückbezug auf zentrale Begriffe der Forschungsfrage in der Diskussion gefunden (heuristisch).",
                   hits)>>
    ELSE <<Finding(id, "Fragestellung", "warn",
                   IF where = "ergebnisse"
                   THEN "Wenig/kein Rückbezug auf zentrale Begriffe der Forschungsfrage im Ergebnisteil (heuristisch)."
                   ELSE "Wenig/kein Rückbezug auf zentrale Begriffe der Forschungsfrage in der Diskussion (heuristisch).",
                   <<hits, terms>>)>>

ReferencedTerms(id, where, rq_source, terms, section_tokens) ==
    IF terms = <<>>
    THEN <<Finding(id, "Fragestellung", "warn",
                   IF where = "ergebnisse"
                   THEN "Keine zentralen Begriffe aus der Forschungsfrage ableitbar - Check RQ-004 übersprungen."
                   ELSE "Keine zentralen Begriffe aus der Forschungsfrage ableitbar - Check RQ-005 übersprungen.",
                   <<rq_source>>)>>
    ELSE Referenced(id, where, terms, SelectSeq(terms, LAMBDA t : t \in Range(section_tokens)))

ReferencedSource(id, where, source, section_text) ==
    IF source = None \/ source[1] = <<>>
    THEN <<Finding(id, "Fragestellung", "warn",
                   IF where = "ergebnisse"
                   THEN "Keine Forschungsfrage/Ziel-Passage gefunden - kann Rückbezug in Ergebnissen nicht prüfen."
                   ELSE "Keine Forschungsfrage/Ziel-Passage gefunden - kann Rückbezug in Diskussion nicht prüfen.",
                   <<>>)>>
    ELSE ReferencedTerms(id, where, source[1], ExtractCandidateTerms(source[1]),
                         Tokenize(section_text))

ResearchQuestionReferencedInResultsRule(doc, ai) ==
    IF "ergebnisse" \notin DOMAIN doc.sections
    THEN <<Finding("RQ-004", "Fragestellung", "warn",
                   "Ergebnisse-Kapitel nicht erkannt - Check RQ-004 kann nicht sauber geprüft werden.",
                   <<>>)>>
    ELSE ReferencedSource("RQ-004", "ergebnisse", RqSource(doc, ai),
                          doc.sections["ergebnisse"].text)

ResearchQuestionReferencedInDiscussionRule(doc, ai) ==
    IF "diskussion" \notin DOMAIN doc.sections
    THEN <<Finding("RQ-005", "Fragestellung", "warn",
                   "Diskussion-Kapitel nicht erkannt - Check RQ-005 kann nicht sauber geprüft werden.",
                   <<>>)>>
    ELSE ReferencedSource("RQ-005", "diskussion", RqSource(doc, ai),
                          doc.sections["diskussion"].text)

(***************************************************************************)
(* registry.py, and the rule engine.  The engine is not part of the         *)
(* sources: it is modelled as the specification describes it, a pass that   *)
(* evaluates every rule of the registry against the same DocumentModel and  *)
(* concatenates the findings in registry order.                             *)
(***************************************************************************)
\* get_all_rules(): the rule classes in the order of the list
GetAllRulesDuplicate ==
    <<"RequiredChaptersRule", "TableOfContentsExistsRule",
      "HeadingHierarchyRule", "HeadingHierarchyRule",
      "HeadingsMustBeNumberedRule", "HeadingNumberingNoGapsRule",
      "ResearchQuestionExistsRule", "ResearchQuestionInIntroRule",
      "ResearchKeyTermsConsistencyRule", "ResearchQuestionReferencedInResultsRule",
      "ResearchQuestionReferencedInDiscussionRule",
      "ChapterOrderPlausibleRule", "ChapterLengthBalancedRule",
      "MethodChapterExistsRule", "MethodDetailSufficientRule",
      "ResultsDiscussionSeparationRule",
      "LiteratureExistsRule", "AllCitationsInReferenceListRule",
      "NoUncitedReferencesRule", "CitationStyleConsistentRule",
      "ListOfFiguresExistsRule", "ListOfTablesExistsRule",
      "FiguresTablesReferencedRule">>

GetAllRules ==
    <<"RequiredChaptersRule", "TableOfContentsExistsRule",
      "HeadingHierarchyRule", "HeadingDepthRule",
      "HeadingsMustBeNumberedRule", "HeadingNumberingNoGapsRule",
      "ResearchQuestionExistsRule", "ResearchQuestionInIntroRule",
      "ResearchKeyTermsConsistencyRule", "ResearchQuestionReferencedInResultsRule",
      "ResearchQuestionReferencedInDiscussionRule",
      "ChapterOrderPlausibleRule", "ChapterLengthBalancedRule",
      "MethodChapterExistsRule", "MethodDetailSufficientRule",
      "ResultsDiscussionSeparationRule",
      "LiteratureExistsRule", "AllCitationsInReferenceListRule",
      "NoUncitedReferencesRule", "CitationStyleConsistentRule",
      "ListOfFiguresExistsRule", "ListOfTablesExistsRule",
      "FiguresTablesReferencedRule">>

\* the class attributes id, category and severity of the rule classes
RuleAttributes ==
    ("RequiredChaptersRule" :> [id |-> "STRUCT-007", category |-> "Struktur", severity |-> "error"]) @@
    ("TableOfContentsExistsRule" :> [id |-> "STRUCT-015", category |-> "Struktur", severity |-> "error"]) @@
    ("HeadingHierarchyRule" :> [id |-> "STRUCT-009", category |-> "Struktur", severity |-> "warn"]) @@
    ("HeadingDepthRule" :> [id |-> "STRUCT-010", category |-> "Struktur", severity |-> "info"]) @@
    ("HeadingsMustBeNumberedRule" :> [id |-> "FORM-041a", category |-> "Formales", severity |-> "error"]) @@
    ("HeadingNumberingNoGapsRule" :> [id |-> "FORM-041b", category |-> "Formales", severity |-> "error"]) @@
    ("ResearchQuestionExistsRule" :> [id |-> "RQ-001", category |-> "Fragestellung", severity |-> "error"]) @@
    ("ResearchQuestionInIntroRule" :> [id |-> "RQ-002", category |-> "Fragestellung", severity |-> "warn"]) @@
    ("ResearchKeyTermsConsistencyRule" :> [id |-> "RQ-003", category |-> "Fragestellung", severity |-> "warn"]) @@
    ("ResearchQuestionReferencedInResultsRule" :> [id |-> "RQ-004", category |-> "Fragestellung", severity |-> "warn"]) @@
    ("ResearchQuestionReferencedInDiscussionRule" :> [id |-> "RQ-005", category |-> "Fragestellung", severity |-> "warn"]) @@
    ("ChapterOrderPlausibleRule" :> [id |-> "STRUCT-008", category |-> "Struktur", severity |-> "warn"]) @@
    ("ChapterLengthBalancedRule" :> [id |-> "STRUCT-011", category |-> "Struktur", severity |-> "warn"]) @@
    ("MethodChapterExistsRule" :> [id |-> "METH-019", category |-> "Methode", severity |-> "error"]) @@
    ("MethodDetailSufficientRule" :> [id |-> "METH-020", category |-> "Methode", severity |-> "warn"]) @@
    ("ResultsDiscussionSeparationRule" :> [id |-> "RES-025", category |-> "Ergebnisse", severity |-> "warn"]) @@
    ("LiteratureExistsRule" :> [id |-> "LIT-032", category |-> "Literatur", severity |-> "error"]) @@
    ("AllCitationsInReferenceListRule" :> [id |-> "LIT-033", category |-> "Literatur", severity |-> "error"]) @@
    ("NoUncitedReferencesRule" :> [id |-> "LIT-034", category |-> "Literatur", severity |-> "warn"]) @@
    ("CitationStyleConsistentRule" :> [id |-> "LIT-035", category |-> "Literatur", severity |-> "warn"]) @@
    ("ListOfFiguresExistsRule" :> [id |-> "FORM-039", category |-> "Formales", severity |-> "error"]) @@
    ("ListOfTablesExistsRule" :> [id |-> "FORM-040", category |-> "Formales", severity |-> "error"]) @@
    ("FiguresTablesReferencedRule" :> [id |-> "RES-026", category |-> "Ergebnisse", severity |-> "error"])

\* rule.run(doc, ai) for an instance of the class
Run(rule, d, a) ==
    CASE rule = "RequiredChaptersRule" -> RequiredChaptersRule(d, a)
      [] rule = "TableOfContentsExistsRule" -> TableOfContentsExistsRule(d, a)
      [] rule = "HeadingHierarchyRule" -> HeadingHierarchyRule(d, a)
      [] rule = "HeadingDepthRule" -> HeadingDepthRule(d, a)
      [] rule = "HeadingsMustBeNumberedRule" -> HeadingsMustBeNumberedRule(d, a)
      [] rule = "HeadingNumberingNoGapsRule" -> HeadingNumberingNoGapsRule(d, a)
      [] rule = "ResearchQuestionExistsRule" -> ResearchQuestionExistsRule(d, a)
      [] rule = "ResearchQuestionInIntroRule" -> ResearchQuestionInIntroRule(d, a)
      [] rule = "ResearchKeyTermsConsistencyRule" -> ResearchKeyTermsConsistencyRule(d, a)
      [] rule = "ResearchQuestionReferencedInResultsRule" ->
            ResearchQuestionReferencedInResultsRule(d, a)
      [] rule = "ResearchQuestionReferencedInDiscussionRule" ->
            ResearchQuestionReferencedInDiscussionRule(d, a)
      [] rule = "ChapterOrderPlausibleRule" -> ChapterOrderPlausibleRule(d, a)
      [] rule = "ChapterLengthBalancedRule" -> ChapterLengthBalancedRule(d, a)
      [] rule = "MethodChapterExistsRule" -> MethodChapterExistsRule(d, a)
      [] rule = "MethodDetailSufficientRule" -> MethodDetailSufficientRule(d, a)
      [] rule = "ResultsDiscussionSeparationRule" -> ResultsDiscussionSeparationRule(d, a)
      [] rule = "LiteratureExistsRule" -> LiteratureExistsRule(d, a)
      [] rule = "AllCitationsInReferenceListRule" -> AllCitationsInReferenceListRule(d, a)
      [] rule = "NoUncitedReferencesRule" -> NoUncitedReferencesRule(d, a)
      [] rule = "CitationStyleConsistentRule" -> CitationStyleConsistentRule(d, a)
      [] rule = "ListOfFiguresExistsRule" -> ListOfFiguresExistsRule(d, a)
      [] rule = "ListOfTablesExistsRule" -> ListOfTablesExistsRule(d, a)
      [] rule = "FiguresTablesReferencedRule" -> FiguresTablesReferencedRule(d, a)

\* what run() leaves of the DocumentModel it was given: no run() assigns to doc
\* or to an object reached from it; a mutant of it: a rule that consumes the
\* headings it has read
DocAfterRunCleared(rule, d) ==
    IF rule = "HeadingDepthRule" THEN [d EXCEPT !.headings = <<>>] ELSE d

DocAfterRun(rule, d) == d

\* what run() leaves of the annotation it was given
AiAfterRun(rule, a) == a

MaxTables == 1

\* extract_docx, after _build_sections: the DocumentModel is assembled; the
\* file holds tables_count tables
Assemble ==
    /\ pc = "built"
    /\ \E tables_count \in 0..MaxTables :
          model' = DocumentModel(paragraphs, headings, sections, tables_count)
    /\ pc' = "assembled"
    /\ UNCHANGED <<calls, walkVars, extVars, segVars, annotation, rule_idx, queue, running, faulted,
                   results, all_findings>>

\* the annotations of a pass: none, one without a research question, one with
AiQuestion == <<"wie", " ", "wirkt", " ", "die", " ", "methode", " ", "auf", " ", "werte", "?">>

AiChoices == {None, Some([research_question |-> None]), Some([research_question |-> AiQuestion])}

(***************************************************************************)
(* The rule engine: the evaluation pass over the registry.  The engine is   *)
(* no part of the sources; it is modelled from the specification: every     *)
(* rule of the registry is evaluated against the same DocumentModel, a      *)
(* fault of a rule is isolated, the findings are concatenated in registry   *)
(* order.                                                                   *)
(***************************************************************************)
\* a pass starts: the rules are get_all_rules(), none has run
StartPass ==
    /\ pc = "assembled"
    /\ annotation' \in AiChoices
    /\ rule_idx' = 0
    /\ results' = [i \in 1..Len(GetAllRules) |-> None]
    /\ all_findings' = <<>>
    /\ pc' = "rules"
    /\ UNCHANGED <<calls, walkVars, extVars, segVars, model, queue, running, faulted>>

\* the sequential pass: the next rule of the registry runs, its findings are
\* appended
RunRule ==
    /\ pc = "rules"
    /\ rule_idx < Len(GetAllRules)
    /\ LET found == Run(GetAllRules[rule_idx + 1], model, annotation)
       IN  /\ results' = [results EXCEPT ![rule_idx + 1] = Some(found)]
           /\ all_findings' = all_findings \o found
    /\ model' = DocAfterRun(GetAllRules[rule_idx + 1], model)
    /\ annotation' = AiAfterRun(GetAllRules[rule_idx + 1], annotation)
    /\ rule_idx' = rule_idx + 1
    /\ UNCHANGED <<calls, walkVars, extVars, segVars, queue, running, faulted, pc>>

\* what the engine makes of a fault of a rule: a single Finding of severity
\* error with the id of the rule and a description of the fault; a mutant of it
\* that swallows the fault
IsolateFaultSilently(rule, fault) == <<>>

IsolateFault(rule, fault) ==
    <<Finding(RuleAttributes[rule].id, RuleAttributes[rule].category, "error",
              "Regel konnte nicht ausgeführt werden: ", <<fault>>)>>

\* the faults a run() may raise
Faults == {"KeyError", "ValueError"}

MaxFaults == 1

\* the next rule of the registry raises instead of returning: the engine
\* isolates the fault and goes on with the pass
RuleFaults ==
    /\ pc = "rules"
    /\ rule_idx < Len(GetAllRules)
    /\ Cardinality(faulted) < MaxFaults
    /\ \E fault \in Faults :
          LET found == IsolateFault(GetAllRules[rule_idx + 1], fault)
          IN  /\ results' = [results EXCEPT ![rule_idx + 1] = Some(found)]
              /\ all_findings' = all_findings \o found
    /\ faulted' = faulted \cup {rule_idx + 1}
    /\ rule_idx' = rule_idx + 1
    /\ UNCHANGED <<calls, walkVars, extVars, segVars, model, annotation, queue, running, pc>>

\* the orders in which a pool may take up the rules: the order of the
\* registry, its reverse, and the odd places before the even ones
RegistryOrder == [i \in 1..Len(GetAllRules) |-> i]

ReverseOrder == [i \in 1..Len(GetAllRules) |-> Len(GetAllRules) + 1 - i]

OddEvenOrder ==
    SelectSeq(RegistryOrder, LAMBDA i : i % 2 = 1) \o SelectSeq(RegistryOrder, LAMBDA i : i % 2 = 0)

PoolOrders == {RegistryOrder, ReverseOrder, OddEvenOrder}

MaxWorkers == 2

\* a concurrent pass starts: the rules are queued in one of the orders
StartPool ==
    /\ pc = "assembled"
    /\ annotation' \in AiChoices
    /\ queue' \in PoolOrders
    /\ running' = {}
    /\ results' = [i \in 1..Len(GetAllRules) |-> None]
    /\ all_findings' = <<>>
    /\ pc' = "pool"
    /\ UNCHANGED <<calls, walkVars, extVars, segVars, model, rule_idx, faulted>>

\* a free worker takes up the next rule of the queue
StartRule ==
    /\ pc = "pool"
    /\ queue # <<>>
    /\ Cardinality(running) < MaxWorkers
    /\ running' = running \cup {Head(queue)}
    /\ queue' = Tail(queue)
    /\ UNCHANGED <<calls, walkVars, extVars, segVars, model, annotation, rule_idx, faulted, results,
                   all_findings, pc>>

\* a worker finishes its rule: run() has read the DocumentModel and the
\* annotation as they are, its list is kept under the place of the rule
FinishRule ==
    /\ pc = "pool"
    /\ \E i \in running :
          /\ results' = [results EXCEPT ![i] = Some(Run(GetAllRules[i], model, annotation))]
          /\ model' = DocAfterRun(GetAllRules[i], model)
          /\ annotation' = AiAfterRun(GetAllRules[i], annotation)
          /\ running' = running \ {i}
    /\ UNCHANGED <<calls, walkVars, extVars, segVars, rule_idx, queue, faulted, all_findings, pc>>

\* the lists of the first n places, concatenated in registry order
RECURSIVE ConcatResults(_, _)
ConcatResults(lists, n) ==
    IF n = 0 THEN <<>> ELSE ConcatResults(lists, n - 1) \o lists[n][1]

\* every rule has finished: the lists are merged in registry order
Merge ==
    /\ pc = "pool"
    /\ queue = <<>>
    /\ running = {}
    /\ all_findings' = ConcatResults(results, Len(GetAllRules))
    /\ pc' = "merged"
    /\ UNCHANGED <<calls, walkVars, extVars, segVars, model, annotation, rule_idx, queue, running,
                   faulted, results>>

(***************************************************************************)
(* The documents the rules are run on, and the sequential pass.             *)
(***************************************************************************)
\* the headings 1 Einleitung .. 6 Literaturverzeichnis, with no chapter on theory
ExampleChapters ==
    <<Plain(<<"1", " ", "Einleitung">>),
      Plain(<<"2", " ", "Methode">>),
      Plain(<<"3", " ", "Ergebnisse">>),
      Plain(<<"4", " ", "Diskussion">>),
      Plain(<<"5", " ", "Fazit">>),
      Plain(<<"6", " ", "Literaturverzeichnis">>)>>

\* a thesis with the seven required chapters, a research question, citations in both styles, a figure and a table
ExampleThesis ==
    <<Plain(<<"1", " ", "Einleitung">>),
      Plain(<<"Die", " ", "Forschungsfrage", " ", "lautet", ":", " ", "wie", " ", "wirkt", " ", "die", " ", "methode", " ", "auf", " ", "daten">>),
      Plain(<<"2", " ", "Theorie">>),
      Plain(<<"Die", " ", "methode", " ", "nach", " ", "(", "Meier", ",", " ", "2", "0", "2", "0", ")", " ", "und", " ", "[", "1", "]">>),
      Plain(<<"3", " ", "Methode">>),
      Plain(<<"stichprobe", " ", "daten", " ", "analyse", " ", "siehe", " ", "Abbildung", " ", "1", " ", "und", " ", "Tabelle", " ", "1">>),
      Plain(<<"4", " ", "Ergebnisse">>),
      Plain(<<"methode", " ", "wirkt", " ", "auf", " ", "daten">>),
      Plain(<<"5", " ", "Diskussion">>),
      Plain(<<"methode", " ", "wirkt", " ", "somit", " ", "auf", " ", "daten">>),
      Plain(<<"6", " ", "Fazit">>),
      Plain(<<"Text">>),
      Plain(<<"7", " ", "Literaturverzeichnis">>),
      Plain(<<"[", "1", "]", " ", "Meier", " ", "2", "0", "2", "0">>),
      Plain(<<"Meier", " ", "2", "0", "2", "0", " ", "Text">>)>>

\* a table of contents, a list of figures and a list of tables before the chapters
ExampleLists ==
    <<Plain(<<"Inhaltsverzeichnis">>),
      Plain(<<"1", " ", "Einleitung", " ", "3">>),
      Plain(<<"2", " ", "Methode", " ", "5">>),
      Plain(<<"3", " ", "Fazit", " ", "9">>),
      Plain(<<"Abbildungsverzeichnis">>),
      Plain(<<"Tabellenverzeichnis">>),
      Plain(<<"1", " ", "Einleitung">>),
      Plain(<<"siehe", " ", "Abbildung", " ", "1", " ", "und", " ", "Tabelle", " ", "2">>),
      Plain(<<"Text">>),
      Plain(<<"Text">>),
      Plain(<<"Text">>),
      Plain(<<"Text">>),
      Plain(<<"2", " ", "Methode">>),
      Plain(<<"daten", " ", "daten", " ", "daten", " ", "daten">>),
      Plain(<<"3", " ", "Fazit">>),
      Plain(<<"Text">>)>>

\* reference entries that follow no chapter heading, and a citation of an entry that is not there
ExampleFallback ==
    <<Plain(<<"1", " ", "Einleitung">>),
      Plain(<<"Text", " ", "[", "1", "]", " ", "und", " ", "[", "4", "]">>),
      Plain(<<"[", "1", "]", " ", "Meier", " ", "2", "0", "2", "0">>),
      Plain(<<"[", "2", "]", " ", "Daten", " ", "1", "9", "9", "9">>),
      Plain(<<"[", "3", "]", " ", "Text", " ", "2", "0", "2", "0">>)>>

\* headings whose numbers jump, whose level differs from their number, and one that is five levels deep
ExampleNumbering ==
    <<Plain(<<"1", " ", "Einleitung">>),
      Para(<<"1", ".", "1", " ", "Motivation">>, <<"Heading", "1">>, None, FALSE),
      Plain(<<"1", ".", "3", " ", "Hintergrund">>),
      Plain(<<"1", ".", "3", ".", "1", ".", "1", ".", "1", " ", "Text">>),
      Plain(<<"3", " ", "Methode">>)>>

\* unnumbered headings before and after chapter 1, and the research question spelled in variants
ExampleUnnumbered ==
    <<Para(<<"Vorwort">>, <<"Heading", "1">>, None, FALSE),
      Para(<<"Motivation">>, <<"Heading", "1">>, None, FALSE),
      Plain(<<"1", " ", "Einleitung">>),
      Plain(<<"Ziel", " ", "dieser", " ", "Arbeit", " ", "ist", " ", "die", " ", "datenanalyse", " ", "der", " ", "werte">>),
      Para(<<"Ergebnisse">>, <<"Heading", "1">>, None, FALSE),
      Plain(<<"Die", " ", "daten", "-", "analyse", ":", " ", "wert", " ", "und", " ", "werte">>),
      Para(<<"Diskussion">>, <<"Heading", "1">>, None, FALSE),
      Plain(<<"datenanalyse", " ", "werte", " ", "Text">>)>>

\* results that interpret, an unlisted figure, and the question asked in the frame of the thesis
ExampleInterpretation ==
    <<Plain(<<"1", " ", "Einleitung">>),
      Plain(<<"im", " ", "rahmen", " ", "dieser", " ", "arbeit", " ", "ist", " ", "die", " ", "frage", ":", " ", "über", " ", "daten">>),
      Plain(<<"2", " ", "Ergebnisse">>),
      Plain(<<"somit", " ", "folglich", " ", "bedeutet", " ", "kritisch", " ", "vergleich", " ", "Abbildung", " ", "2">>),
      Plain(<<"3", " ", "Diskussion">>),
      Plain(<<"somit", " ", "literatur", " ", "et", " ", "al", ".", " ", "(", "Meier", ",", " ", "2", "0", "2", "0", ")">>),
      Plain(<<"4", " ", "Literaturverzeichnis">>),
      Plain(<<"2", ")", " ", "Text">>),
      Plain(<<"Daten", " ", "1", "9", "9", "9">>)>>

ExampleDocs ==
    {ExampleChapters, ExampleThesis, ExampleLists, ExampleFallback, ExampleNumbering, ExampleUnnumbered, ExampleInterpretation}

\* paragraphs of short documents: a numbered chapter title, a research
\* question, a styled chapter title, a reference entry, running text with a
\* citation and a reference to a table
RuleParagraphs ==
    {Plain(<<"1", " ", "Einleitung">>),
     Plain(<<"Die", " ", "Forschungsfrage", ":", " ", "wie", " ", "wirkt", " ", "die", " ", "methode">>),
     Para(<<"Ergebnisse">>, <<"Heading", "1">>, None, FALSE),
     Plain(<<"[", "1", "]", " ", "Meier", " ", "2", "0", "2", "0">>),
     Plain(<<"die", " ", "methode", " ", "wirkt", " ", "(", "Meier", ",", " ", "2", "0", "2", "0", ")",
             " ", "siehe", " ", "Tabelle", " ", "1">>)}

MaxRuleParas == 2

RuleDocs == ExampleDocs \cup SeqsUpTo(RuleParagraphs, MaxRuleParas)

InitRules == \E d \in RuleDocs : ExtractorStarts(d)

NextRules ==
    ClassifyParagraph \/ FilterToc \/ BuildSectionsCall \/ Assemble \/ StartPass \/ RunRule

SpecRules == InitRules /\ [][NextRules]_vars

\* the documents of the passes in which a rule may fault
FaultDocs == {ExampleChapters, ExampleNumbering}

InitFault == \E d \in FaultDocs : ExtractorStarts(d)

NextFault ==
    \/ ClassifyParagraph
    \/ FilterToc
    \/ BuildSectionsCall
    \/ Assemble
    \/ StartPass
    \/ RunRule
    \/ RuleFaults

\* the engine takes up the next rule of the registry
TakesUpNext == pc = "rules" /\ rule_idx < Len(GetAllRules) /\ rule_idx' = rule_idx + 1

\* the engine goes on with the pass while rules are left
SpecFault == InitFault /\ [][NextFault]_vars /\ WF_rule_idx(TakesUpNext)

\* the documents of the concurrent passes
PoolDocs == {ExampleThesis, ExampleNumbering}

InitPool == \E d \in PoolDocs : ExtractorStarts(d)

NextPool ==
    \/ ClassifyParagraph
    \/ FilterToc
    \/ BuildSectionsCall
    \/ Assemble
    \/ StartPool
    \/ StartRule
    \/ FinishRule
    \/ Merge

SpecPool == InitPool /\ [][NextPool]_vars

(***************************************************************************)
(* The claims on the rules and the engine.                                  *)
(***************************************************************************)
\* the id of the rule at place i of the registry
RuleId(i) == RuleAttributes[GetAllRules[i]].id

\* the list the rule at place i of the registry has returned
FindingsOf(i) == results[i][1]

\* the DocumentModel as extract_docx assembled it
Assembled == DocumentModel(paragraphs, headings, sections, model.tables_count)

\* the required keys the sections map has no entry for
MissingChapters == {k \in Range(REQUIRED) : k \notin DOMAIN sections}

\* C8: RequiredChaptersRule returns one Finding: of severity error, naming
\* exactly the required keys that have no entry in the sections map, each once,
\* when there is such a key, and of severity info when there is none; for the
\* headings 1 Einleitung, 2 Methode, 3 Ergebnisse, 4 Diskussion, 5 Fazit,
\* 6 Literaturverzeichnis the extractor followed by the rule names theorie and
\* nothing else
C8_RequiredChapters ==
    (pc = "rules" /\ rule_idx >= 1) =>
        /\ Len(FindingsOf(1)) = 1
        /\ FindingsOf(1)[1].rule_id = "STRUCT-007"
        /\ IF MissingChapters = {}
           THEN /\ FindingsOf(1)[1].severity = "info"
                /\ FindingsOf(1)[1].evidence = <<>>
           ELSE /\ FindingsOf(1)[1].severity = "error"
                /\ Range(FindingsOf(1)[1].evidence) = MissingChapters
                /\ Len(FindingsOf(1)[1].evidence) = Cardinality(MissingChapters)
        /\ elems = ExampleChapters =>
              /\ FindingsOf(1)[1].severity = "error"
              /\ FindingsOf(1)[1].evidence = <<"theorie">>

\* the rule has run on the six headings and named theorie
C8_Witness ==
    /\ pc = "rules"
    /\ rule_idx >= 1
    /\ elems = ExampleChapters
    /\ DOMAIN sections = Range(REQUIRED) \ {"theorie"}
    /\ FindingsOf(1)[1].evidence = <<"theorie">>

\* C4: the ids of the rules of the registry are pairwise distinct; the pass
\* takes the rules up in the order of the registry, so the places that hold a
\* list are the first rule_idx ones; every Finding of a list carries the id of
\* the rule at the place of the list; the findings of the pass are the lists
\* concatenated in registry order
C4_RegistryFixedOrder ==
    /\ \A i, j \in 1..Len(GetAllRules) : i # j => RuleId(i) # RuleId(j)
    /\ pc = "rules" =>
          /\ Len(results) = Len(GetAllRules)
          /\ \A i \in 1..Len(GetAllRules) : (results[i] # None) <=> (i <= rule_idx)
          /\ \A i \in 1..rule_idx :
                \A k \in 1..Len(FindingsOf(i)) : FindingsOf(i)[k].rule_id = RuleId(i)
          /\ all_findings = ConcatResults(results, rule_idx)

\* a pass is through the registry and some rule has returned several findings
C4_Witness ==
    /\ pc = "rules"
    /\ rule_idx = Len(GetAllRules)
    /\ \E i \in 1..Len(GetAllRules) : Len(FindingsOf(i)) >= 2
    /\ Len(all_findings) > Len(GetAllRules)

\* the paths of MethodDetailSufficientRule and of TableOfContentsExistsRule on
\* either side of their thresholds
ThresholdPaths ==
    /\ \A wc \in {0, MinWords - 1, MinWords} :
          \A n \in {0, MinHits - 1, MinHits} :
              Len(MethodDetail(wc, SubSeq(KEYWORDS, 1, n))) = 1
    /\ \A toc_like \in {0, TocLikeMin - 1, TocLikeMin} : Len(TocFound(0, toc_like)) = 1

\* C1: every rule the pass has taken up has returned at least one Finding,
\* whether an annotation is there or not, so the findings of the pass are at
\* least as many as the rules taken up; the same on the paths behind the
\* thresholds on the length of a chapter
C1_EveryRuleContributes ==
    /\ pc = "rules" =>
          /\ \A i \in 1..rule_idx : Len(FindingsOf(i)) >= 1
          /\ Len(all_findings) >= rule_idx
    /\ ThresholdPaths

\* a pass without an annotation is through the registry of a document with
\* headings, and so is none with one
C1_Witness ==
    /\ pc = "rules"
    /\ rule_idx = Len(GetAllRules)
    /\ annotation = None
    /\ headings # <<>>
    /\ Len(all_findings) >= Len(GetAllRules)

\* the rule that faulted has contributed one Finding, of severity error, with
\* its own id and the fault as description; the findings are the lists in
\* registry order; at the end of the pass every other rule has contributed what
\* its run() returns on the assembled DocumentModel
FaultsIsolated ==
    pc = "rules" =>
        /\ faulted \subseteq 1..rule_idx
        /\ \A i \in faulted :
              /\ Len(FindingsOf(i)) = 1
              /\ FindingsOf(i)[1].severity = "error"
              /\ FindingsOf(i)[1].rule_id = RuleId(i)
              /\ Len(FindingsOf(i)[1].evidence) = 1
              /\ FindingsOf(i)[1].evidence[1] \in Faults
        /\ all_findings = ConcatResults(results, rule_idx)
        /\ rule_idx = Len(GetAllRules) =>
              \A i \in 1..Len(GetAllRules) \ faulted :
                  results[i] = Some(Run(GetAllRules[i], Assembled, annotation))

\* the pass is through the registry: every rule has a list
PassThrough ==
    /\ pc = "rules"
    /\ rule_idx = Len(GetAllRules)
    /\ \A i \in 1..Len(GetAllRules) : results[i] # None

\* C2: a fault of a rule does not abort the pass: the rule that faulted
\* contributes one Finding, of severity error, with its own id and the fault as
\* description, every other rule contributes the findings of its run(), and a
\* pass in which a rule has faulted gets through the registry
C2_FaultIsolated == []FaultsIsolated /\ ((faulted # {}) ~> PassThrough)

\* a rule has faulted, rules after it have run, and the pass is through
C2_Witness ==
    /\ pc = "rules"
    /\ rule_idx = Len(GetAllRules)
    /\ faulted # {}
    /\ \E i \in faulted : i < Len(GetAllRules) /\ FindingsOf(i + 1)[1].severity # "error"
    /\ Len(all_findings) >= Len(GetAllRules)

\* the findings of the sequential pass over the registry from place i on
RECURSIVE SequentialFrom(_, _, _)
SequentialFrom(i, d, a) ==
    IF i > Len(GetAllRules) THEN <<>>
    ELSE Run(GetAllRules[i], d, a)
             \o SequentialFrom(i + 1, DocAfterRun(GetAllRules[i], d),
                               AiAfterRun(GetAllRules[i], a))

TableTexts ==
    {[text |-> <<"Kapitel">>, style |-> <<"Heading", "1">>, ilvl |-> Some(0)],
     [text |-> <<"1", " ", "Einleitung">>, style |-> <<>>, ilvl |-> None],
     [text |-> <<"Einleitung">>, style |-> <<>>, ilvl |-> None],
     [text |-> <<"Mehr", " ", "Text">>, style |-> <<>>, ilvl |-> None],
     [text |-> <<>>, style |-> <<>>, ilvl |-> None]}

\* each of them outside a table and inside one
TableParagraphs == {[p |-> t, in_table |-> b] : t \in TableTexts, b \in BOOLEAN}

InitTable == \E d \in SeqsUpTo(TableParagraphs, MaxParas) : ExtractorStarts(d)

NextTable == ClassifyParagraph \/ FilterToc

SpecTable == InitTable /\ [][NextTable]_vars

\* the loop is at a paragraph that lies inside a table
AtTableParagraph == pc = "classify" /\ idx < Len(elems) /\ elems[idx + 1].in_table

\* C11: a paragraph with in_table = true adds its text to the paragraphs and
\* nothing else: the heading list and the outline counters stay as they are,
\* and no Heading's para_index is the index of a paragraph inside a table
C11_TableParagraphsOnlyText ==
    /\ [][AtTableParagraph =>
            /\ paragraphs' = Append(paragraphs, PText(elems[idx + 1].p))
            /\ headings' = headings
            /\ auto_counts' = auto_counts]_vars
    /\ [](\A k \in 1..Len(headings) : ~elems[headings[k].para_index + 1].in_table)

\* three paragraphs in tables (heading-styled, numbered, a known title) have
\* been passed, and the same heading-styled paragraph outside got number 1
C11_Witness ==
    /\ pc = "extracted"
    /\ Len(elems) = 3
    /\ elems[1].in_table /\ elems[1].p.style # <<>>
    /\ elems[2].in_table /\ elems[2].p.text = <<"1", " ", "Einleitung">>
    /\ ~elems[3].in_table /\ elems[3].p.style # <<>>
    /\ Len(headings) = 1
    /\ headings[1].para_index = 2
    /\ headings[1].number = <<"1">>

(***************************************************************************)
(* C12: the rules on the research question, with and without annotation.    *)
(***************************************************************************)
\* the place of a rule in the registry
PlaceOf(rule) == CHOOSE i \in 1..Len(GetAllRules) : GetAllRules[i] = rule

\* the annotation supplies a research question that is not empty
QuestionSupplied == annotation # None /\ annotation[1].research_question # <<>>

\* the paragraphs of the model that match a research-question pattern
RqParagraphs == {i \in 1..Len(paragraphs) : ContainsResearchQuestion(paragraphs[i])}

\* the text the three rules are to work on: the supplied question, else the
\* first matching paragraph, else nothing
SourceToUse ==
    IF QuestionSupplied THEN Some(annotation[1].research_question)
    ELSE IF RqParagraphs = {} THEN None
    ELSE Some(paragraphs[CHOOSE i \in RqParagraphs : \A j \in RqParagraphs : i <= j])

\* what a rule that has run has returned is what it returns on that text
WorksOnSource(rule, expected) ==
    PlaceOf(rule) <= rule_idx => FindingsOf(PlaceOf(rule)) = expected

\* C12: with no annotation or an empty research_question no rule fails, and
\* RQ-003, RQ-004 and RQ-005 work on the first paragraph that matches a
\* research-question pattern; with a non-empty research_question they work on
\* that string instead
C12_AnnotationFallback ==
    pc = "rules" =>
        /\ \A i \in 1..rule_idx : results[i] # None /\ FindingsOf(i) # <<>>
        /\ WorksOnSource("ResearchKeyTermsConsistencyRule",
                         KeyTermsOfSource(Tokenize(JoinLines(paragraphs)), SourceToUse))
        /\ "ergebnisse" \in DOMAIN sections =>
               WorksOnSource("ResearchQuestionReferencedInResultsRule",
                             ReferencedSource("RQ-004", "ergebnisse", SourceToUse,
                                              sections["ergebnisse"].text))
        /\ "diskussion" \in DOMAIN sections =>
               WorksOnSource("ResearchQuestionReferencedInDiscussionRule",
                             ReferencedSource("RQ-005", "diskussion", SourceToUse,
                                              sections["diskussion"].text))

\* a pass without a question in the annotation is through the three rules on
\* a thesis whose question is in a paragraph: the terms are those of the
\* paragraph
C12_Witness ==
    /\ pc = "rules"
    /\ rule_idx >= PlaceOf("ResearchQuestionReferencedInDiscussionRule")
    /\ annotation = Some([research_question |-> None])
    /\ RqParagraphs # {}
    /\ "ergebnisse" \in DOMAIN sections
    /\ FindingsOf(PlaceOf("ResearchQuestionReferencedInResultsRule"))[1].severity = "info"
    /\ <<"daten">> \in Range(FindingsOf(PlaceOf("ResearchQuestionReferencedInResultsRule"))[1].evidence)

\* a pass with a question in the annotation is through them on the same
\* thesis: the terms are those of the question, not those of the paragraph
C12_WitnessSupplied ==
    /\ pc = "rules"
    /\ rule_idx >= PlaceOf("ResearchQuestionReferencedInDiscussionRule")
    /\ QuestionSupplied
    /\ RqParagraphs # {}
    /\ "ergebnisse" \in DOMAIN sections
    /\ FindingsOf(PlaceOf("ResearchKeyTermsConsistencyRule")) # 
          KeyTermsOfSource(Tokenize(JoinLines(paragraphs)), FirstRqParagraph(paragraphs))

(***************************************************************************)
(* C13: the severity of a rule that cannot determine its result.            *)
(***************************************************************************)
\* the structure the rule needs is absent from the assembled model: no
\* headings, no chapter 1, no numbered heading of level 1 or 2, no literature
\* list, a section that was not recognized
Undetermined(rule) ==
    CASE rule = "HeadingHierarchyRule" -> headings = <<>>
      [] rule = "HeadingDepthRule" -> headings = <<>>
      [] rule = "HeadingsMustBeNumberedRule" ->
            headings = <<>> \/ FindFirstChapter1Idx(headings) = None
      [] rule = "HeadingNumberingNoGapsRule" ->
            \/ headings = <<>>
            \/ /\ NumberedOfLevel(headings, 1) = <<>>
               /\ \A k \in 1..Len(NumberedOfLevel(headings, 2)) :
                      Len(NumberedOfLevel(headings, 2)[k].num) < 2
      [] rule = "AllCitationsInReferenceListRule" -> GetLiteratureText(Assembled)[1] = None
      [] rule = "NoUncitedReferencesRule" -> GetLiteratureText(Assembled)[1] = None
      [] rule = "ResearchQuestionInIntroRule" -> "einleitung" \notin DOMAIN sections
      [] rule = "ResearchQuestionReferencedInResultsRule" -> "ergebnisse" \notin DOMAIN sections
      [] rule = "ResearchQuestionReferencedInDiscussionRule" -> "diskussion" \notin DOMAIN sections
      [] rule = "MethodDetailSufficientRule" -> "methode" \notin DOMAIN sections
      [] rule = "ResultsDiscussionSeparationRule" ->
            "ergebnisse" \notin DOMAIN sections \/ "diskussion" \notin DOMAIN sections
      [] OTHER -> FALSE

\* the rules that have run without the structure they need
UndeterminedRun == {i \in 1..rule_idx : Undetermined(GetAllRules[i])}

\* the rules that report the absence with their own severity error
ReportAsError ==
    {"HeadingsMustBeNumberedRule", "HeadingNumberingNoGapsRule", "AllCitationsInReferenceListRule"}

\* C13 as stated: a rule that cannot determine its result for want of the
\* structure it needs returns a Finding of severity info or warn, never error
C13_AsClaimed ==
    pc = "rules" =>
        \A i \in UndeterminedRun :
            \A k \in 1..Len(FindingsOf(i)) : FindingsOf(i)[k].severity \in {"info", "warn"}

\* C13, amended: such a rule returns exactly one Finding, with its own rule id;
\* its severity is error for FORM-041a, FORM-041b and LIT-033 and info or warn
\* for every other rule
C13_UndeterminedSeverity ==
    pc = "rules" =>
        \A i \in UndeterminedRun :
            /\ Len(FindingsOf(i)) = 1
            /\ FindingsOf(i)[1].rule_id = RuleId(i)
            /\ IF GetAllRules[i] \in ReportAsError
               THEN FindingsOf(i)[1].severity = "error"
               ELSE FindingsOf(i)[1].severity \in {"info", "warn"}

\* a pass is through the registry of a document with headings but no chapter
\* 1, no literature list and no introduction: FORM-041a and LIT-033 have
\* reported error, LIT-034 and RQ-002 warn
C13_Witness ==
    /\ pc = "rules"
    /\ rule_idx = Len(GetAllRules)
    /\ headings # <<>>
    /\ FindFirstChapter1Idx(headings) = None
    /\ "einleitung" \notin DOMAIN sections
    /\ FindingsOf(PlaceOf("HeadingsMustBeNumberedRule"))[1].severity = "error"
    /\ FindingsOf(PlaceOf("AllCitationsInReferenceListRule"))[1].severity = "error"
    /\ FindingsOf(PlaceOf("NoUncitedReferencesRule"))[1].severity = "warn"
    /\ FindingsOf(PlaceOf("ResearchQuestionInIntroRule"))[1].severity = "warn"

(***************************************************************************)
(* C14: extractions side by side.  Each call of                             *)
(* _extract_paragraphs_and_headings_from_xml has its own paragraphs,        *)
(* headings and auto_counts: they are local variables of the function.      *)
(***************************************************************************)
MaxConcParas == 3

MaxExtractions == 3

\* the slots in which an extraction runs
Slots == 1..2

\* the documents extracted side by side: heading-styled paragraphs without
\* explicit number at the list levels 0 and 1
ConcDocs ==
    {[k \in 1..Len(ds) |-> OutlinePara(ds[k])] : ds \in SeqsUpTo({0, 1}, MaxConcParas)}

\* the local variables of a call that has just been entered for a document:
\* paragraphs = [], headings = [], auto_counts = [0] * 10
EnteredCall(doc_elems, n) ==
    [elems |-> doc_elems, idx |-> 0, paragraphs |-> <<>>, headings |-> <<>>,
     auto_counts |-> [k \in 0..9 |-> 0], returned |-> FALSE, nth |-> n]

\* the counters the loop body of call c works on; a variant in which they
\* are those of the first call, as a counter array of the module would be
CountersOfShared(cs, c) == cs[1].auto_counts

CountersOf(cs, c) == cs[c].auto_counts

\* the extractions entered so far
Entered == IF calls = <<>> THEN 0 ELSE Max2(calls[1].nth, calls[2].nth)

\* a further extraction is entered in a slot whose call has returned
EnterCall(c) ==
    /\ pc = "calls"
    /\ calls[c].returned
    /\ Entered < MaxExtractions
    /\ \E d \in ConcDocs : calls' = [calls EXCEPT ![c] = EnteredCall(d, Entered + 1)]
    /\ UNCHANGED <<walkVars, extVars, segVars, engVars, pc>>

\* one pass of the loop of call c
CallClassifies(c) ==
    /\ pc = "calls"
    /\ ~calls[c].returned
    /\ calls[c].idx < Len(calls[c].elems)
    /\ LET f == calls[c]
           r == Classify(f.elems[f.idx + 1].p, f.elems[f.idx + 1].in_table, f.idx,
                         CountersOf(calls, c))
       IN  calls' = [calls EXCEPT ![c] =
                        [f EXCEPT !.paragraphs = Append(f.paragraphs, r.para),
                                  !.headings = f.headings \o r.heading,
                                  !.auto_counts = r.counts,
                                  !.idx = f.idx + 1]]
    /\ UNCHANGED <<walkVars, extVars, segVars, engVars, pc>>

\* call c is through its loop, filters the headings of the TOC and returns
CallReturns(c) ==
    /\ pc = "calls"
    /\ ~calls[c].returned
    /\ calls[c].idx = Len(calls[c].elems)
    /\ calls' = [calls EXCEPT ![c] =
                    [calls[c] EXCEPT !.headings = FilterTocHeadings(calls[c].paragraphs,
                                                                    calls[c].headings),
                                     !.returned = TRUE]]
    /\ UNCHANGED <<walkVars, extVars, segVars, engVars, pc>>

InitCalls ==
    /\ WalkerIdle
    /\ ExtractorIdle
    /\ \E d1 \in ConcDocs, d2 \in ConcDocs :
           calls = <<EnteredCall(d1, 1), EnteredCall(d2, 2)>>
    /\ pc = "calls"

NextCalls == \E c \in Slots : EnterCall(c) \/ CallClassifies(c) \/ CallReturns(c)

SpecCalls == InitCalls /\ [][NextCalls]_vars

\* a document extracted alone: the loop over its first n paragraphs, started
\* with all counters zero
RECURSIVE Alone(_, _)
Alone(es, n) ==
    IF n = 0 THEN [headings |-> <<>>, counts |-> [k \in 0..9 |-> 0]]
    ELSE LET before == Alone(es, n - 1)
             r == Classify(es[n].p, es[n].in_table, n - 1, before.counts)
         IN  [headings |-> before.headings \o r.heading, counts |-> r.counts]

\* C14: the outline counters are local to the extraction of one document: in
\* every interleaving of the paragraph steps of two extractions each has the
\* headings, with the synthesized numbers, and the counters it has when the
\* document is extracted alone, and an extraction entered later starts from
\* all-zero counters
C14_CountersLocal ==
    pc = "calls" =>
        \A c \in Slots :
            /\ calls[c].headings = Alone(calls[c].elems, calls[c].idx).headings
            /\ calls[c].auto_counts = Alone(calls[c].elems, calls[c].idx).counts
            /\ calls[c].idx = 0 => \A k \in 0..9 : calls[c].auto_counts[k] = 0

\* the first extraction has returned with the numbers 1, 1.1, 2 while the
\* other, of another document, was in its loop with counters that are not
\* zero, and a third extraction has been entered in the slot of the first
C14_Witness ==
    /\ pc = "calls"
    /\ calls[1].nth = 3
    /\ calls[1].idx = 0
    /\ ~calls[2].returned
    /\ calls[2].idx = 2
    /\ Len(calls[2].elems) = 3
    /\ calls[2].headings[2].number = <<"1", ".", "1">>
    /\ calls[2].auto_counts[2] = 1

(***************************************************************************)
(* C15: a later heading of a key that is already claimed.                   *)
(***************************************************************************)
\* the list without its k-th element
Without(hs, k) == SubSeq(hs, 1, k - 1) \o SubSeq(hs, k + 1, Len(hs))

\* the headings that resolve to a key an earlier heading resolves to
LaterDuplicates(hs) ==
    {k \in 1..Len(hs) :
        /\ SecKeys(hs)[k] # None
        /\ \E j \in 1..(k - 1) : SecKeys(hs)[j] = SecKeys(hs)[k]}

\* C15 as stated: removing a later heading of an already claimed key from the
\* input of _build_sections leaves the sections map unchanged
C15_AsClaimed ==
    pc = "built" =>
        \A k \in LaterDuplicates(headings) :
            BuildSections(paragraphs, Without(headings, k)) = sections

\* the section with this key ends where heading h stands
EndsAt(sec, h) ==
    \/ sec.end_para + 1 = h.para_index
    \/ sec.start_para = h.para_index

\* C15, amended: a later heading of an already claimed key gets no section
\* and replaces none, but it ends the section before it: removing it leaves
\* the keys and every section's title and start_para unchanged, and leaves a
\* section unchanged altogether unless the section ended at the removed
\* heading, in which case the section runs on to the next heading with a key
C15_LaterDuplicateOnlyEnds ==
    pc = "built" =>
        \A k \in LaterDuplicates(headings) :
            LET without == BuildSections(paragraphs, Without(headings, k))
            IN  /\ DOMAIN without = DOMAIN sections
                /\ \A key \in DOMAIN sections :
                    /\ without[key].title = sections[key].title
                    /\ without[key].start_para = sections[key].start_para
                    /\ without[key].end_para >= sections[key].end_para
                    /\ without[key] # sections[key] => EndsAt(sections[key], headings[k])

\* a second heading of the key literatur follows the text of the first:
\* without it the section takes in its paragraph, with it the section does not
C15_Witness ==
    /\ pc = "built"
    /\ Len(headings) = 2
    /\ LaterDuplicates(headings) = {2}
    /\ "literatur" \in DOMAIN sections
    /\ sections["literatur"].word_count = 2
    /\ BuildSections(paragraphs, Without(headings, 2))["literatur"].word_count = 3

(***************************************************************************)
(* C16: citation signals.                                                   *)
(***************************************************************************)
MaxSignalParas == 2

\* 'Studies [1,3-5] and (Müller, 2020) show... et al. confirm.'
SignalExample ==
    <<"Studies", " ", "[", "1", ",", "3", "-", "5", "]", " ", "and", " ",
      "(", "Müller", ",", " ", "2", "0", "2", "0", ")", " ", "show", ".", ".", ".", " ",
      "et", " ", "al", ".", " ", "confirm", ".">>

\* paragraphs with brackets with and without digits, a bracket left open and
\* one that closes it, parentheticals that are '(Surname, YYYY)' and ones that
\* are not, 'et al.' in both cases, with two blanks, and without its dot
SignalParagraphs ==
    {Plain(SignalExample),
     Plain(<<"[", "1", "]", " ", "[", "Text", "]", " ", "[", "2">>),
     Plain(<<"5", "]", " ", "(", "Meier", ",", " ", "2", "0", "2", "0", "a", ")", " ",
             "(", "wert", ",", " ", "2", "0", "2", "0", ")">>),
     Plain(<<"Et", " ", " ", "Al", ".", " ", "et", " ", "al", " ", "et", " ", "al", ".">>),
     Plain(<<"(", "Meier", ",", "2", "0", "2", "0", ")", " ", "(", "Meier", " ", "2", "0", "2", "0", ")",
             " ", "(", "Meier", "-", "Müller", ",", " ", "1", "9", "9", "9", ")">>),
     Plain(<<>>)}

InitSignals == \E d \in SeqsUpTo(SignalParagraphs, MaxSignalParas) : ExtractorStarts(d)

NextSignals == ClassifyParagraph \/ FilterToc \/ BuildSectionsCall \/ Assemble

SpecSignals == InitSignals /\ [][NextSignals]_vars

\* the non-empty paragraphs, joined by newlines
JoinedText == JoinLines(SelectSeq(paragraphs, LAMBDA p : p # <<>>))

\* the "]" that close a bracketed block with a digit: a "[" stands before it
\* with no "]" in between, and a digit stands between the two
DigitBlockCloses(t) ==
    {c \in 1..Len(t) :
        /\ t[c] = "]"
        /\ \E o \in 1..(c - 1) :
              /\ t[o] = "["
              /\ \A j \in o..(c - 1) : t[j] # "]"
              /\ \E k \in (o + 1)..(c - 1) : t[k] \in Digits}

\* the "(" that open a parenthetical '(Surname, YYYY)': a capitalised name of
\* letters and hyphens, a comma, blanks or none, four digits, ")"
SurnameYearOpens(t) ==
    {o \in 1..Len(t) :
        /\ t[o] = "("
        /\ \E e \in (o + 1)..Len(t), y \in (o + 1)..Len(t) :
              /\ t[o + 1] \in DOMAIN CapWords
              /\ \A j \in (o + 1)..e : IsWord(t[j]) \/ t[j] = "-"
              /\ e + 1 <= Len(t) /\ t[e + 1] = ","
              /\ \A j \in (e + 2)..(y - 1) : t[j] \in Blanks
              /\ y >= e + 2 /\ y + 4 <= Len(t)
              /\ \A j \in y..(y + 3) : t[j] \in Digits
              /\ t[y + 4] = ")"}

\* the places where 'et al.' starts, in either case: the word et, blanks, the
\* word al, a dot
EtAlStarts(t) ==
    {i \in 1..Len(t) :
        /\ t[i] \in {"et", "Et"}
        /\ \E a \in (i + 2)..Len(t) :
              /\ \A j \in (i + 1)..(a - 1) : t[j] \in Blanks
              /\ t[a] \in {"al", "Al"}
              /\ a + 1 <= Len(t) /\ t[a + 1] = "."}

\* C16: the citation signals are counts over the joined non-empty paragraphs:
\* numeric_count is the number of bracketed blocks that hold a digit, one per
\* block, author_year_count the number of '(Surname, YYYY)' parentheticals,
\* etal_count the number of 'et al.' in either case; the example text yields
\* 1, 1 and 1
C16_CitationSignals ==
    pc = "assembled" =>
        /\ model.citations.numeric_count = Cardinality(DigitBlockCloses(JoinedText))
        /\ model.citations.author_year_count = Cardinality(SurnameYearOpens(JoinedText))
        /\ model.citations.etal_count = Cardinality(EtAlStarts(JoinedText))
        /\ paragraphs = <<SignalExample>> =>
               model.citations = [numeric_count |-> 1, author_year_count |-> 1, etal_count |-> 1]

\* the model of the example text followed by the paragraph of brackets is
\* assembled: two blocks with a digit, one parenthetical, one 'et al.'
C16_Witness ==
    /\ pc = "assembled"
    /\ Len(paragraphs) = 2
    /\ paragraphs[1] = SignalExample
    /\ model.citations = [numeric_count |-> 2, author_year_count |-> 1, etal_count |-> 1]

(***************************************************************************)
(* C17: the text of a Section and its stored range.                         *)
(***************************************************************************)
\* the newline-join of the paragraphs with text at the indexes from..(to - 1)
TextOfRange(from, to) ==
    Strip(JoinLines(SelectSeq(Slice(paragraphs, from, to), NotBlank)))

\* C17 as stated: text is the newline-join of the non-empty paragraphs from
\* start_para inclusive to end_para exclusive, and word_count is the number
\* of word tokens of text
C17_AsClaimed ==
    pc = "built" =>
        \A key \in DOMAIN sections :
            /\ sections[key].text = TextOfRange(sections[key].start_para, sections[key].end_para)
            /\ sections[key].word_count = WordCount(sections[key].text)

\* no paragraph belongs to the section: its heading is the last paragraph, or
\* the next paragraph is a heading that resolves to a key
NothingBelow(sec) ==
    \/ sec.start_para >= Len(paragraphs)
    \/ \E k \in 1..Len(headings) :
          /\ headings[k].para_index = sec.start_para
          /\ SecKeys(headings)[k] # None

\* C17, amended: end_para is the index of the last paragraph of the section,
\* so text is the newline-join of the non-empty paragraphs from start_para to
\* end_para, both inclusive; a section that no paragraph belongs to has
\* end_para = start_para and an empty text; word_count is the number of word
\* tokens of text
C17_TextOfStoredRange ==
    pc = "built" =>
        \A key \in DOMAIN sections :
            /\ sections[key].text =
                  IF NothingBelow(sections[key]) THEN <<>>
                  ELSE TextOfRange(sections[key].start_para, sections[key].end_para + 1)
            /\ NothingBelow(sections[key]) => sections[key].end_para = sections[key].start_para
            /\ sections[key].end_para >= sections[key].start_para
            /\ sections[key].word_count = WordCount(sections[key].text)

\* a section of two paragraphs with text, two words each, is stored with
\* start_para 1 and end_para 2 in a document of three paragraphs
C17_Witness ==
    /\ pc = "built"
    /\ \E key \in DOMAIN sections :
          /\ sections[key].start_para = 1
          /\ sections[key].end_para = 2
          /\ sections[key].word_count = 4
    /\ Len(paragraphs) = 3

(***************************************************************************)
(* C18: the TOC filter between classification and segmentation.             *)
(***************************************************************************)
MaxGap == 4

\* a document with or without the title of a table of contents, k entry
\* lines, the chapter Einleitung, g empty paragraphs and n1 paragraphs of
\* running text, the chapter Methode and n2 paragraphs of running text
TocGapDoc(titled, k, g, n1, n2, text) ==
    (IF titled THEN <<Plain(<<"Inhaltsverzeichnis">>)>> ELSE <<>>)
        \o [i \in 1..k |-> Plain(TocEntry(i))]
        \o <<Plain(<<"Einleitung">>)>> \o Repeat(Plain(<<>>), g) \o Repeat(Plain(text), n1)
        \o <<Plain(<<"Methode">>)>> \o Repeat(Plain(text), n2)

TocGapDocs ==
    {TocGapDoc(titled, k, g, n1, n2, text) :
        titled \in BOOLEAN, k \in 1..MaxToc, g \in {0, MaxGap}, n1 \in 0..1, n2 \in 0..MaxText,
        text \in {<<"Text">>, <<"Text", ".", ".", ".">>}}

InitTocPipeline == \E d \in TocGapDocs : ExtractorStarts(d)

NextTocPipeline == ClassifyParagraph \/ FilterToc \/ BuildSectionsCall \/ Assemble

SpecTocPipeline == InitTocPipeline /\ [][NextTocPipeline]_vars

\* the classified headings (by their place in the classified list) that lie
\* in the TOC range toc and whose paragraph looks like a line of a TOC
RemovedIn(toc) ==
    {i \in 1..Len(extracted.classified) :
        /\ toc # None
        /\ toc[1].toc_start <= extracted.classified[i].para_index
        /\ extracted.classified[i].para_index < toc[1].toc_end
        /\ LooksLikeTocLine(paragraphs[extracted.classified[i].para_index + 1])}

RemovedByToc == RemovedIn(FindTocRange(paragraphs))

\* the classified list without the removed headings, in its order
ClassifiedKept ==
    LET removed == RemovedByToc
        kept == SelectSeq([i \in 1..Len(extracted.classified) |-> i],
                          LAMBDA i : i \notin removed)
    IN  [k \in 1..Len(kept) |-> extracted.classified[kept[k]]]

\* the filter runs when every paragraph is classified and no section is
\* built, and the sections are built from the filtered list afterwards
FilterBetween ==
    /\ (pc = "classify" /\ pc' = "extracted") =>
            idx = Len(elems) /\ sections = <<>> /\ returned = <<>>
    /\ sections' # sections => pc = "extracted" /\ sections' = BuildSections(paragraphs, headings)

\* C18: the TOC filter runs after classification and before segmentation: the
\* heading list passed to _build_sections and stored in the DocumentModel is
\* the classified list, in its order, without exactly the headings in
\* [toc_start, toc_end) whose paragraph looks like a TOC line; without a TOC
\* title the list is unchanged; no Section is built from a removed heading
C18_TocFilterBetween ==
    /\ [][FilterBetween]_vars
    /\ [](pc \in {"extracted", "built", "assembled"} =>
            LET removed == RemovedByToc
                kept == ClassifiedKept
            IN  /\ headings = kept
                /\ TocTitleIndexes(paragraphs) = {} => headings = extracted.classified
                /\ \A key \in DOMAIN sections :
                     /\ \E k \in 1..Len(headings) :
                            /\ headings[k].para_index + 1 = sections[key].start_para
                            /\ headings[k].text = sections[key].title
                     /\ \A i \in removed :
                            extracted.classified[i].para_index + 1 # sections[key].start_para
                /\ pc = "assembled" => model.headings = kept /\ model.sections = sections)

\* the model of a document with a table of contents is assembled: two entry
\* lines were classified as headings and removed, a heading in the range that
\* does not look like a TOC line was kept, and both chapters have sections
C18_Witness ==
    /\ pc = "assembled"
    /\ Cardinality(RemovedByToc) = 2
    /\ Len(model.headings) = 2
    /\ FindTocRange(paragraphs)[1].toc_end > model.headings[1].para_index
    /\ DOMAIN model.sections = {"einleitung", "methode"}

(***************************************************************************)
(* C19: the end of the TOC range.                                           *)
(***************************************************************************)
\* a document with the title of a table of contents, n lines that look like
\* TOC lines and m paragraphs of running text
LongTocDoc(n, m) ==
    <<Plain(<<"Inhaltsverzeichnis">>)>>
        \o Repeat(Plain(<<"Text", ".", ".", ".">>), n) \o Repeat(Plain(<<"Text">>), m)

\* a TOC longer than the fallback span, one that runs up to the scan limit
\* and is followed by running text, and one that ends between the two
LongTocDocs ==
    {LongTocDoc(TocFallbackSpan + TocWindow, 0),
     LongTocDoc(TocScanCap - TocNonTocMin, TocWindow),
     LongTocDoc(TocFallbackSpan + TocWindow, TocWindow)}

InitTocRange == \E d \in TocGapDocs \cup LongTocDocs : ExtractorStarts(d)

NextTocRange == ClassifyParagraph \/ FilterToc

SpecTocRange == InitTocRange /\ [][NextTocRange]_vars

\* the 0-based indexes of the paragraphs whose normalized text is not empty
NonEmptyIndexes(ps) == {k \in 0..(Len(ps) - 1) : NormalizeSimple(ps[k + 1]) # <<>>}

\* the paragraphs among idxs that do not look like a line of a TOC
NonTocAmong(ps, idxs) == {k \in idxs : ~LooksLikeTocLine(ps[k + 1])}

\* the range with the end taken from ends when there is one
RangeWith(ps, toc_start, ends) ==
    Some([toc_start |-> toc_start,
          toc_end |-> IF ends = {} THEN Min2(Len(ps), toc_start + TocFallbackSpan)
                      ELSE CHOOSE j \in ends : \A k \in ends : j <= k])

\* the range as C19 states it: the window at j is the 8 non-empty paragraphs
\* that start at j
ClaimedTocRange(ps) ==
    LET titles == TocTitleIndexes(ps)
        toc_start == CHOOSE i \in titles : \A k \in titles : i <= k
        ne == NonEmptyIndexes(ps)
        Window(j) == {k \in ne : k >= j /\ Cardinality({m \in ne : j <= m /\ m < k}) < TocWindow}
        ends == {j \in (toc_start + 1)..(Min2(Len(ps), toc_start + TocScanCap) - 1) :
                    Cardinality(NonTocAmong(ps, Window(j))) >= TocNonTocMin}
    IN  IF titles = {} THEN None ELSE RangeWith(ps, toc_start, ends)

\* C19 as stated: toc_end is the smallest j after toc_start and below
\* toc_start + 500 for which the 8 non-empty paragraphs starting at j hold at
\* least 5 that do not look like TOC lines, else min(len, toc_start + 250);
\* none without a title
C19_AsClaimed ==
    pc = "extracted" => FindTocRange(paragraphs) = ClaimedTocRange(paragraphs)

\* the range with the window at j being the non-empty ones among the
\* paragraphs j..j+7 that lie below the scan limit
WindowedTocRange(ps) ==
    LET titles == TocTitleIndexes(ps)
        toc_start == CHOOSE i \in titles : \A k \in titles : i <= k
        limit == Min2(Len(ps), toc_start + TocScanCap)
        ne == NonEmptyIndexes(ps)
        Window(j) == {k \in j..(j + TocWindow - 1) : k < limit /\ k \in ne}
        ends == {j \in (toc_start + 1)..(limit - 1) :
                    Cardinality(NonTocAmong(ps, Window(j))) >= TocNonTocMin}
    IN  IF titles = {} THEN None ELSE RangeWith(ps, toc_start, ends)

\* C19, amended: toc_start is the first paragraph whose normalized text is
\* 'inhaltsverzeichnis'; toc_end is the smallest j after toc_start and below
\* min(len, toc_start + 500) for which at least 5 of the paragraphs j..j+7
\* that lie below that limit are non-empty and do not look like TOC lines,
\* else min(len, toc_start + 250); none without a title
C19_TocRangeEnd ==
    pc = "extracted" => FindTocRange(paragraphs) = WindowedTocRange(paragraphs)

\* the range of a document whose TOC runs up to the scan limit: the running
\* text behind the limit does not end it, the end is toc_start + 250
C19_Witness ==
    /\ pc = "extracted"
    /\ Len(paragraphs) > TocScanCap
    /\ FindTocRange(paragraphs) = Some([toc_start |-> 0, toc_end |-> TocFallbackSpan])

(***************************************************************************)
(* C20: the boundaries of a section.                                        *)
(***************************************************************************)
\* the key heading k of the list resolves to, None when it resolves to none
KeyOf(k) == FindSectionKey(headings[k].text, Some(headings[k].level), headings[k].number)

\* the headings that are the first to resolve to their key
FirstOfKey == {k \in 1..Len(headings) : KeyOf(k) # None /\ \A j \in 1..(k - 1) : KeyOf(j) # KeyOf(k)}

\* the paragraph indexes of the headings after heading k that resolve to a key
KeyedBelow(k) ==
    {headings[j].para_index : j \in {j \in 1..Len(headings) :
        headings[j].para_index > headings[k].para_index /\ KeyOf(j) # None}}

\* where the section of heading k stops: the next heading that resolves to a
\* key, or the end of the document
StopsAt(k) ==
    IF KeyedBelow(k) = {} THEN Len(paragraphs)
    ELSE CHOOSE e \in KeyedBelow(k) : \A f \in KeyedBelow(k) : e <= f

\* C20: for each heading that is the first to resolve to its key, the text of
\* the section is the newline-join of the non-empty paragraphs from
\* para_index + 1 up to, and excluding, the para_index of the next heading
\* that resolves to any key, or the end of the document; a heading that
\* resolves to no key does not end a section
C20_SectionBoundaries ==
    pc = "built" =>
        /\ DOMAIN sections = {KeyOf(k)[1] : k \in FirstOfKey}
        /\ \A k \in FirstOfKey :
              /\ sections[KeyOf(k)[1]].title = headings[k].text
              /\ sections[KeyOf(k)[1]].text = TextOfRange(headings[k].para_index + 1, StopsAt(k))
              /\ \A j \in 1..Len(headings) :
                    (KeyOf(j) = None /\ headings[j].para_index > headings[k].para_index)
                        => StopsAt(k) # headings[j].para_index

\* the section einleitung runs over a numbered sub-heading that resolves to
\* no key and over the text behind it
C20_Witness ==
    /\ pc = "built"
    /\ Len(headings) = 2
    /\ FirstOfKey = {1}
    /\ KeyOf(2) = None
    /\ DOMAIN sections = {"einleitung"}
    /\ sections["einleitung"].end_para = 2
    /\ sections["einleitung"].word_count > 2

(***************************************************************************)
(* C21: which paragraphs become headings.                                   *)
(***************************************************************************)
MaxHeadParas == 2

\* n blanks, n dashes
Pad(n) == [i \in 1..n |-> " "]

Dashes(n) == [i \in 1..n |-> "-"]

\* texts at the two length limits: a known title of 60 and of 61 characters
\* (the dashes at its end are dropped by _normalize_title), a numbered text of
\* 120 and of 121 characters, a numbered known title of 10 characters in a text
\* of 121, running text, an empty and a blank paragraph
HeadTexts ==
    {<<"Einleitung">> \o Dashes(50),
     <<"Einleitung">> \o Dashes(51),
     <<"1">> \o Pad(115) \o <<"Text">>,
     <<"1">> \o Pad(116) \o <<"Text">>,
     <<"1">> \o Pad(110) \o <<"Einleitung">>,
     <<"Mehr", " ", "Text">>,
     <<" ">>,
     <<>>}

\* each of them without style outside a table; some of them with a heading
\* style (with and without list level) and inside a table
HeadParagraphs ==
    {Plain(t) : t \in HeadTexts}
    \cup {Para(<<"Einleitung">> \o Dashes(51), <<"Heading", "1">>, None, FALSE),
          Para(<<"1">> \o Pad(116) \o <<"Text">>, <<"Heading", "1">>, Some(0), FALSE),
          Para(<<"Mehr", " ", "Text">>, <<"Heading", "1">>, Some(0), FALSE),
          Para(<<"Mehr", " ", "Text">>, <<"Standard">>, Some(0), FALSE),
          Para(<<>>, <<"Heading", "1">>, Some(0), FALSE),
          Para(<<"Einleitung">> \o Dashes(50), <<>>, None, TRUE)}

InitHeadings == \E d \in SeqsUpTo(HeadParagraphs, MaxHeadParas) : ExtractorStarts(d)

NextHeadings == ClassifyParagraph \/ FilterToc

SpecHeadings == InitHeadings /\ [][NextHeadings]_vars

\* the style of the paragraph is a recognized heading style
RecognizedStyle(p) == HeadingLevelFromStyle(PStyle(p)) # None

\* the paragraph has a number: one written in its text, or one synthesized
\* from the list level of a heading-styled paragraph
HasNumber(p) ==
    \/ NumberingMatch(PText(p)).number # None
    \/ (RecognizedStyle(p) /\ PIlvl(p) # None)

\* the title left after the number resolves to a section key (for a paragraph
\* without heading style the level is the one its written number gives)
TitleResolves(p) ==
    LET m == NumberingMatch(PText(p))
    IN  FindSectionKey(m.title,
                       IF m.number # None THEN Some(CountDots(m.number) + 1) ELSE None,
                       m.number) # None

\* the three ways of the claim to be a heading
MeetsHeadingTest(p) ==
    \/ RecognizedStyle(p)
    \/ (HasNumber(p) /\ TextLen(PText(p)) <= 120)
    \/ (TitleResolves(p) /\ TextLen(NumberingMatch(PText(p)).title) <= 60)

\* C21: a non-empty paragraph outside any table is added to the heading list
\* if and only if its style is a recognized heading style, or it has a number
\* and its text has at most 120 characters, or its title without the number
\* resolves to a section key and has at most 60 characters; a paragraph with
\* empty text is never added
C21_HeadingTest ==
    [][pc = "classify" /\ idx < Len(elems) =>
          LET e == elems[idx + 1]
          IN  /\ Len(headings') \in {Len(headings), Len(headings) + 1}
              /\ (PText(e.p) # <<>> /\ ~e.in_table) =>
                     (Len(headings') = Len(headings) + 1 <=> MeetsHeadingTest(e.p))
              /\ PText(e.p) = <<>> => headings' = headings
              /\ Len(headings') = Len(headings) + 1 =>
                     headings'[Len(headings')].para_index = idx]_vars

\* a known title of 61 characters was passed over, and a numbered known title
\* of 10 characters in a text of 121 characters became a heading
C21_Witness ==
    /\ pc = "extracted"
    /\ Len(elems) = 2
    /\ elems[1] = Plain(<<"Einleitung">> \o Dashes(51))
    /\ elems[2] = Plain(<<"1">> \o Pad(110) \o <<"Einleitung">>)
    /\ TextLen(paragraphs[2]) = 121
    /\ Len(headings) = 1
    /\ headings[1].para_index = 1
    /\ headings[1].text = <<"Einleitung">>

(***************************************************************************)
(* C22: the level of a heading and the level check of HeadingHierarchyRule. *)
(***************************************************************************)
MaxLevelParas == 2

\* headings whose style and number give different levels (a written number of
\* two components under Heading 1, a list level 1 under Heading 1), a heading
\* style without number, a known title without style and number, a numbered one
LevelParagraphs ==
    {Para(<<"1", ".", "2", " ", "Hintergrund">>, <<"Heading", "1">>, None, FALSE),
     Para(<<"Kapitel">>, <<"Heading", "1">>, Some(1), FALSE),
     Para(<<"Kapitel">>, <<"Heading", "3">>, None, FALSE),
     Plain(<<"Einleitung">>),
     Plain(<<"2", " ", "Methode">>)}

InitLevels == \E d \in SeqsUpTo(LevelParagraphs, MaxLevelParas) : ExtractorStarts(d)

SpecLevels == InitLevels /\ [][NextRules]_vars

\* the level the style of the paragraph of heading h gives (None: no heading style)
StyleLevelOf(h) == HeadingLevelFromStyle(PStyle(elems[h.para_index + 1].p))

\* the findings of the level check among the findings of the rule at place i
LevelWarnings(i) ==
    SelectSeq(FindingsOf(i),
              LAMBDA f : f.message = "Überschriftenlevel passt evtl. nicht zur Nummerierung: '")

\* C22: every Heading has level = (dots in its number) + 1 when it has a
\* number, else the level of its style, else 1; the level of a numbered heading
\* is the count of the components of its number, and HeadingHierarchyRule
\* never returns the warning that level and numbering do not match
C22_LevelFromNumber ==
    /\ \A k \in 1..Len(headings) :
          LET h == headings[k]
          IN  /\ h.level = IF h.number # <<>> THEN CountDots(h.number) + 1
                           ELSE IF StyleLevelOf(h) # None THEN StyleLevelOf(h)[1]
                           ELSE 1
              /\ h.number # <<>> => h.level = Len(ParseNumber(h.number))
    /\ pc = "rules" =>
          \A i \in 1..rule_idx :
              GetAllRules[i] = "HeadingHierarchyRule" => LevelWarnings(i) = <<>>

\* HeadingHierarchyRule has run on a model with the heading 1.2 of level 2
\* under the style Heading 1 and a heading of level 3 without number
C22_Witness ==
    /\ pc = "rules"
    /\ \E i \in 1..rule_idx : GetAllRules[i] = "HeadingHierarchyRule"
    /\ Len(model.headings) = 2
    /\ model.headings[1].number = <<"1", ".", "2">>
    /\ model.headings[1].level = 2
    /\ StyleLevelOf(model.headings[1]) = Some(1)
    /\ model.headings[2].number = <<>>
    /\ model.headings[2].level = 3

(***************************************************************************)
(* C23: how a title resolves to a section key.                              *)
(***************************************************************************)
MaxKeyParas == 1

\* titles that are a keyword, that start with one, that hold a word of the
\* theory chapter, and that hold the word Literaturrecherche
KeyTitles ==
    {<<"Literaturverzeichnis">>,
     <<"Stand", " ", "der", " ", "Forschung", ":">>,
     <<"Einleitung", " ", "und", " ", "Motivation">>,
     <<"Ergebnisse", " ", "und", " ", "Analyse">>,
     <<"Daten", " ", "und", " ", "Grundlagen">>,
     <<"Methode", " ", "der", " ", "Literaturrecherche">>,
     <<"Literaturrecherche">>,
     <<"Mehr", " ", "Text">>}

\* each title under the style Heading 1, without style, and behind a number of
\* one and of two components
KeyParagraphs ==
    {Para(t, <<"Heading", "1">>, None, FALSE) : t \in KeyTitles}
    \cup {Plain(t) : t \in KeyTitles}
    \cup {Plain(<<"3", " ">> \o t) : t \in KeyTitles}
    \cup {Plain(<<"3", ".", "1", " ">> \o t) : t \in KeyTitles}

InitKeys == \E d \in SeqsUpTo(KeyParagraphs, MaxKeyParas) : ExtractorStarts(d)

NextKeys == ClassifyParagraph \/ FilterToc \/ BuildSectionsCall

SpecKeys == InitKeys /\ [][NextKeys]_vars

\* the levels and numbers a title is resolved with
KeyLevels == {None, Some(1), Some(2)}

KeyNumbers == {None, <<"3">>, <<"3", ".", "1">>}

\* the title is, normalized, a keyword of the key
ExactFor(title, key) ==
    \E i \in 1..Len(SECTION_KEYWORDS[key]) :
        NormalizeTitle(title) = NormalizeTitle(SECTION_KEYWORDS[key][i])

\* what the claim says of one resolution
ResolvedAsClaimed(title, level, number) ==
    LET key == FindSectionKey(title, level, number)
    IN  /\ (key # None /\ ~ExactFor(title, key[1])) =>
              /\ (level = Some(1) \/ (number # None /\ IsDigitText(number)))
              /\ key[1] \in {"einleitung", "theorie", "methode", "fazit"}
        /\ (key # None
               /\ key[1] \in {"abstract", "abkuerzungen", "ergebnisse", "diskussion", "literatur"}) =>
              ExactFor(title, key[1])
        /\ ContainsWord(Lower(title), "literaturrecherche") => key = None

\* C23: a key found by a prefix match or by the theory catch-all is found only
\* for a top-level heading (level 1, or a number of digits only) and is one of
\* einleitung, theorie, methode, fazit; abstract, abkuerzungen, ergebnisse,
\* diskussion and literatur are found only by exact match; a title with the
\* word literaturrecherche resolves to no key.  Stated for the title of every
\* paragraph at every level and number, for the headings as the segmenter
\* resolves them, and for the sections it builds
C23_KeyResolution ==
    /\ \A k \in 1..Len(elems) :
          \A level \in KeyLevels, number \in KeyNumbers :
              ResolvedAsClaimed(NumberingMatch(PText(elems[k].p)).title, level, number)
    /\ \A k \in 1..Len(headings) :
          ResolvedAsClaimed(headings[k].text, Some(headings[k].level), headings[k].number)
    /\ pc = "built" =>
          \A key \in DOMAIN sections :
              \/ ExactFor(sections[key].title, key)
              \/ /\ key \in {"einleitung", "theorie", "methode", "fazit"}
                 /\ \E k \in 1..Len(headings) :
                       /\ headings[k].text = sections[key].title
                       /\ (headings[k].level = 1 \/ IsDigitText(headings[k].number))

\* the heading 3 Einleitung und Motivation got the section einleitung by its
\* prefix
C23_Witness ==
    /\ pc = "built"
    /\ Len(headings) = 1
    /\ headings[1].number = <<"3">>
    /\ headings[1].text = <<"Einleitung", " ", "und", " ", "Motivation">>
    /\ DOMAIN sections = {"einleitung"}

\* the heading 3.1 Einleitung und Motivation, which is not top-level, got no
\* section
C23_WitnessSubHeading ==
    /\ pc = "built"
    /\ Len(headings) = 1
    /\ headings[1].number = <<"3", ".", "1">>
    /\ headings[1].text = <<"Einleitung", " ", "und", " ", "Motivation">>
    /\ DOMAIN sections = {}

(***************************************************************************)
(* C24: HeadingsMustBeNumberedRule from chapter 1 on.                       *)
(***************************************************************************)
\* the places (1-based) of the level-1 headings of the model numbered 1
Chapter1Places ==
    {i \in 1..Len(model.headings) :
        /\ model.headings[i].level = 1
        /\ model.headings[i].number # <<>>
        /\ IsDigitText(model.headings[i].number)
        /\ IntOf(model.headings[i].number) = 1}

\* a level-1 heading without a number stands at or after the first level-1
\* heading numbered 1
UnnumberedFromChapter1 ==
    \E c \in Chapter1Places :
        /\ \A d \in Chapter1Places : c <= d
        /\ \E i \in c..Len(model.headings) :
              model.headings[i].level = 1 /\ model.headings[i].number = <<>>

\* C24: when HeadingsMustBeNumberedRule has run on a model whose heading list
\* holds a level-1 heading without a number at or after the first level-1
\* heading numbered 1, it has returned a Finding of severity error
C24_UnnumberedBodyIsError ==
    (pc = "rules" /\ rule_idx >= PlaceOf("HeadingsMustBeNumberedRule")
        /\ UnnumberedFromChapter1) =>
        \E k \in 1..Len(FindingsOf(PlaceOf("HeadingsMustBeNumberedRule"))) :
            /\ FindingsOf(PlaceOf("HeadingsMustBeNumberedRule"))[k].rule_id = "FORM-041a"
            /\ FindingsOf(PlaceOf("HeadingsMustBeNumberedRule"))[k].severity = "error"

(***************************************************************************)
(* C25: ChapterOrderPlausibleRule and the order of the chapters.            *)
(***************************************************************************)
MaxChapters == 4

\* the titles of the first five required chapters
ChapterTitles ==
    {<<"Einleitung">>, <<"Theorie">>, <<"Methode">>, <<"Ergebnisse">>, <<"Diskussion">>}

\* the documents made of up to MaxChapters different chapter titles, in any order
OrderDocs ==
    {d \in SeqsUpTo({Plain(t) : t \in ChapterTitles}, MaxChapters) :
        \A i, j \in 1..Len(d) : i # j => d[i] # d[j]}

InitOrder == \E d \in OrderDocs : ExtractorStarts(d)

SpecOrder == InitOrder /\ [][NextRules]_vars

\* the keys of EXPECTED_ORDER the model has a section for
Recognized == {k \in Range(EXPECTED_ORDER) : k \in DOMAIN model.sections}

\* the place of a key in EXPECTED_ORDER
ExpectedPlace(key) == CHOOSE i \in 1..Len(EXPECTED_ORDER) : EXPECTED_ORDER[i] = key

\* the recognized chapters start in the document in the order of EXPECTED_ORDER
InExpectedOrder ==
    \A a, b \in Recognized :
        ExpectedPlace(a) < ExpectedPlace(b) =>
            model.sections[a].start_para < model.sections[b].start_para

\* ChapterOrderPlausibleRule has run in the pass
OrderRuleHasRun == pc = "rules" /\ rule_idx >= PlaceOf("ChapterOrderPlausibleRule")

OrderFindings == FindingsOf(PlaceOf("ChapterOrderPlausibleRule"))

CentralMissing == {"theorie", "methode", "ergebnisse", "diskussion"} \ DOMAIN model.sections

EntryLines ==
    LET lines == Lines(GetLiteratureText(model)[1][1])
    IN  {lines[k] : k \in {j \in 1..Len(lines) :
                              lines[j][1] = "[" /\ NumericRefOf(lines[j]) # None}}

\* the numbers cited in the paragraphs that are no entry of the reference list
CitedOutsideList ==
    UNION {Range(ExtractCitationsFromText(model.paragraphs[k])[1]) :
              k \in {j \in 1..Len(model.paragraphs) :
                        Strip(model.paragraphs[j]) \notin EntryLines}}

\* the numbers of the entries that are cited nowhere outside the list
UncitedEntries == {NumericRefOf(ln)[1] : ln \in EntryLines} \ CitedOutsideList

UncitedFindings == FindingsOf(PlaceOf("NoUncitedReferencesRule"))

\* C26 as the claim states it: when NoUncitedReferencesRule has run on a
\* model whose reference list has an entry [n] whose number is cited nowhere
\* outside the list, it has reported n as uncited, with severity warn when the
\* list is the section literatur and info in fallback mode
C26_UncitedEntryReported ==
    (pc = "rules" /\ rule_idx >= PlaceOf("NoUncitedReferencesRule")
        /\ GetLiteratureText(model)[1] # None
        /\ UncitedEntries # {}) =>
        \E k \in 1..Len(UncitedFindings) :
            /\ UncitedFindings[k].severity =
                  IF GetLiteratureText(model)[2] = "section" THEN "warn" ELSE "info"
            /\ UncitedFindings[k].message \in
                  {"Möglicherweise unzitierte Einträge im Literaturverzeichnis (heuristisch).",
                   "Möglicherweise unzitierte Einträge (Literatur nicht als Kapitel segmentiert; heuristisch)."}
            /\ UncitedEntries \subseteq UncitedFindings[k].evidence[1]

(***************************************************************************)
(* C27: ChapterLengthBalancedRule and the word counts of the chapters.      *)
(***************************************************************************)
MaxWords == 3

\* running text of w words
WordsText(w) == [i \in 1..(2 * w - 1) |-> IF i % 2 = 1 THEN "Text" ELSE " "]

\* a chapter title followed by a paragraph of w words (by nothing when w = 0)
ChapterOf(title, w) ==
    IF w = 0 THEN <<Plain(<<title>>)>> ELSE <<Plain(<<title>>), Plain(WordsText(w))>>

\* three chapters with 0..MaxWords words each
LengthDocs ==
    {ChapterOf("Einleitung", a) \o ChapterOf("Theorie", b) \o ChapterOf("Methode", c) :
        a \in 0..MaxWords, b \in 0..MaxWords, c \in 0..MaxWords}

InitLength == \E d \in LengthDocs : ExtractorStarts(d)

SpecLength == InitLength /\ [][NextRules]_vars

\* the word counts of the recognized chapters
ChapterWordCounts ==
    {model.sections[k].word_count :
        k \in {key \in Range(EXPECTED_ORDER) : key \in DOMAIN model.sections}}

LargestChapter == CHOOSE v \in ChapterWordCounts : \A w \in ChapterWordCounts : w <= v

SmallestChapter == CHOOSE v \in ChapterWordCounts : \A w \in ChapterWordCounts : v <= w

LengthFindings == FindingsOf(PlaceOf("ChapterLengthBalancedRule"))

\* C27: when ChapterLengthBalancedRule has run on a model with at least
\* three recognized chapters, it has returned one Finding: of severity warn
\* when the largest chapter has at least three times the words of the smallest
\* one (also when the smallest has no word at all), of severity info otherwise
C27_WarnsFromFactorThree ==
    (pc = "rules" /\ rule_idx >= PlaceOf("ChapterLengthBalancedRule")
        /\ Cardinality({key \in Range(EXPECTED_ORDER) : key \in DOMAIN model.sections}) >= 3) =>
        /\ Len(LengthFindings) = 1
        /\ LengthFindings[1].rule_id = "STRUCT-011"
        /\ LengthFindings[1].severity =
              IF LargestChapter >= 3 * SmallestChapter THEN "warn" ELSE "info"

(***************************************************************************)
(* C28: the components of a synthesized heading number.                     *)
(***************************************************************************)
\* C28: every synthesized heading number has between 1 and 9 components
\* separated by dots, and every component is an integer >= 1
C28_NoZeroComponent ==
    \A k \in 1..Len(headings) :
        /\ Len(NumberParts(headings[k].number)) \in 1..9
        /\ \A i \in 1..Len(NumberParts(headings[k].number)) :
              NumberParts(headings[k].number)[i] >= 1

(***************************************************************************)
(* C29: the sections of a model do not overlap.                             *)
(***************************************************************************)
\* the paragraph indexes (0-based) the text of a section is sliced from:
\* start_para..end_para when the section has text
SlicedFrom(sec) == IF sec.text = <<>> THEN {} ELSE sec.start_para..sec.end_para

\* the sum of the word counts of the sections with the keys ks
RECURSIVE SumOfWordCounts(_, _)
SumOfWordCounts(secs, ks) ==
    IF ks = {} THEN 0
    ELSE LET k == CHOOSE x \in ks : TRUE
         IN  secs[k].word_count + SumOfWordCounts(secs, ks \ {k})

\* C29: in an assembled model the ranges the texts of two different sections
\* are sliced from are disjoint and lie within 0..len(paragraphs), the text of
\* a section is the text of the paragraphs of its range, and the word counts
\* of all sections sum up to at most word_count_total
C29_SectionsDisjoint ==
    pc = "assembled" =>
        /\ \A k \in DOMAIN model.sections :
              /\ model.sections[k].start_para \in 0..Len(model.paragraphs)
              /\ model.sections[k].end_para \in 0..Len(model.paragraphs)
              /\ model.sections[k].start_para <= model.sections[k].end_para
              /\ model.sections[k].text # <<>> =>
                    /\ model.sections[k].end_para < Len(model.paragraphs)
                    /\ model.sections[k].text =
                          TextOfRange(model.sections[k].start_para,
                                      model.sections[k].end_para + 1)
        /\ \A a, b \in DOMAIN model.sections :
              a # b => SlicedFrom(model.sections[a]) \cap SlicedFrom(model.sections[b]) = {}
        /\ SumOfWordCounts(model.sections, DOMAIN model.sections) <= model.word_count_total

\* a model with seven sections, each of them with text
C29_Witness ==
    /\ pc = "assembled"
    /\ Cardinality(DOMAIN model.sections) = 7
    /\ \A k \in DOMAIN model.sections : model.sections[k].word_count > 0
    /\ SumOfWordCounts(model.sections, DOMAIN model.sections) < model.word_count_total

(***************************************************************************)
(* C30: the rules that ask whether the thesis has a literature list.        *)
(***************************************************************************)
\* RequiredChaptersRule, LiteratureExistsRule and AllCitationsInReferenceListRule
\* have run in the pass
LiteratureRulesHaveRun ==
    /\ pc = "rules"
    /\ rule_idx >= PlaceOf("RequiredChaptersRule")
    /\ rule_idx >= PlaceOf("LiteratureExistsRule")
    /\ rule_idx >= PlaceOf("AllCitationsInReferenceListRule")

\* RequiredChaptersRule lists literatur among the missing chapters
ListedAsMissing ==
    \E k \in 1..Len(FindingsOf(PlaceOf("RequiredChaptersRule"))) :
        LET f == FindingsOf(PlaceOf("RequiredChaptersRule"))[k]
        IN  /\ f.message = "Fehlende Pflichtkapitel: "
            /\ \E i \in 1..Len(f.evidence) : f.evidence[i] = "literatur"

\* LiteratureExistsRule returns the error that no literature list was recognized
NoListRecognized ==
    \E k \in 1..Len(FindingsOf(PlaceOf("LiteratureExistsRule"))) :
        LET f == FindingsOf(PlaceOf("LiteratureExistsRule"))[k]
        IN  f.severity = "error" /\ f.message = "Kein Literaturverzeichnis erkannt."

\* AllCitationsInReferenceListRule reports the literature list as missing
ListReportedMissing ==
    \E k \in 1..Len(FindingsOf(PlaceOf("AllCitationsInReferenceListRule"))) :
        FindingsOf(PlaceOf("AllCitationsInReferenceListRule"))[k].message =
            "Literaturverzeichnis fehlt - kann nicht prüfen ob alle Zitate enthalten sind."

\* C30 as the claim states it: when RequiredChaptersRule does not list
\* literatur as missing, LiteratureExistsRule does not return the error that
\* no literature list was recognized and AllCitationsInReferenceListRule does
\* not report the list as missing
C30_AsClaimed ==
    (LiteratureRulesHaveRun /\ ~ListedAsMissing) =>
        (~NoListRecognized /\ ~ListReportedMissing)

\* the section literatur of the model has text
LiteraturHasText ==
    "literatur" \in DOMAIN model.sections /\ model.sections["literatur"].text # <<>>

\* the paragraphs that start like an entry of a reference list
ReferenceItems ==
    {k \in 1..Len(model.paragraphs) :
        model.paragraphs[k] # <<>> /\ IsRefItemLine(model.paragraphs[k])}

\* C30: RequiredChaptersRule lists literatur as missing exactly when the
\* model has no section literatur; when that section has text,
\* LiteratureExistsRule returns info and AllCitationsInReferenceListRule does
\* not report the list as missing; when the section is there without text and
\* the document has fewer than three reference entries, both return their
\* error although RequiredChaptersRule does not list literatur as missing
C30_AgreeWhenListHasText ==
    LiteratureRulesHaveRun =>
        /\ ListedAsMissing <=> "literatur" \notin DOMAIN model.sections
        /\ LiteraturHasText =>
              /\ ~NoListRecognized
              /\ ~ListReportedMissing
              /\ FindingsOf(PlaceOf("LiteratureExistsRule"))[1].severity = "info"
        /\ ("literatur" \in DOMAIN model.sections /\ ~LiteraturHasText
                /\ Cardinality(ReferenceItems) < RefBlockMin) =>
              (NoListRecognized /\ ListReportedMissing)

\* the three rules have run on a model whose section literatur has text
C30_Witness ==
    /\ LiteratureRulesHaveRun
    /\ LiteraturHasText
    /\ ~ListedAsMissing
    /\ FindingsOf(PlaceOf("LiteratureExistsRule"))[1].message = "Literaturverzeichnis erkannt."

\* the three rules have run on a model whose section literatur has no text:
\* literatur is not listed as missing, and both literature rules return their error
C30_WitnessEmptyList ==
    /\ LiteratureRulesHaveRun
    /\ "literatur" \in DOMAIN model.sections
    /\ ~LiteraturHasText
    /\ ~ListedAsMissing
    /\ NoListRecognized
    /\ ListReportedMissing

====
